---- MODULE Spec2Model ----
(***************************************************************************)
(* LifeSync frontend: password-strength analysis, the password-strength    *)
(* indicator, the three HTTP error classifiers (login, registration,       *)
(* dashboard service), the auth service, interceptor and guard, and the    *)
(* sign-in, sign-up and dashboard request flows.                           *)
(*                                                                         *)
(* A password is a sequence of one-character strings; password.length is   *)
(* Len and a regular-expression character class is a set of characters.    *)
(***************************************************************************)
EXTENDS Integers, Sequences, FiniteSets, TLC

VARIABLES
  password,        \* PasswordStrengthIndicatorComponent.password (input signal)
  strengthResult,  \* value of the strengthResult getter at the last render
  analysis,        \* result of the last direct call of analyze, or Null
  clsInput,        \* the error object handed to the three classifiers
  clsLogin,        \* LoginComponent.mapApiErrorToLoginError(clsInput), or Null
  clsRegistration, \* RegistrationComponent.mapApiErrorToRegistrationError
  clsDashboard,    \* DashboardService.handleError(clsInput), or Null
  localStorage,       \* window.localStorage: key -> value or NullStr
  sessionStorage,     \* window.sessionStorage: key -> value or NullStr
  accessTokenSignal,  \* AuthService.accessTokenSignal
  refreshTokenSignal, \* AuthService.refreshTokenSignal
  userIdSignal,       \* AuthService.userIdSignal
  userEmailSignal,    \* AuthService.userEmailSignal
  routerUrl,          \* Router.url: the activated path followed by its returnUrl
  pendingNav,         \* the navigation the Router has been asked for, or NoNav
  navAdmitted,        \* pendingNav passed the guards, its component is loading
  loginAlive,         \* a LoginComponent instance is on screen
  loginIsLoading,     \* LoginComponent.isLoading
  loginError,         \* LoginComponent.error
  loginReturnUrl,     \* LoginComponent.returnUrl
  loginFormValue,     \* LoginComponent.formValue
  loginRequests,      \* the sign-in requests in flight
  regAlive,           \* a RegistrationComponent instance is on screen
  regIsLoading,       \* RegistrationComponent.isLoading
  regError,           \* RegistrationComponent.error
  regIsSuccess,       \* RegistrationComponent.isSuccess
  regRegisteredEmail, \* RegistrationComponent.registeredEmail
  regUser,            \* RegistrationComponent.user
  regRequests,        \* the sign-up requests in flight
  dashAlive,          \* a DashboardComponent instance is on screen
  retryCount,         \* DashboardComponent.retryCount
  dashboardData_,     \* DashboardService.dashboardData$
  loading_,           \* DashboardService.loading$
  error_,             \* DashboardService.error$
  lastRefreshTime_,   \* DashboardService.lastRefreshTime$
  fetches,            \* the fetchDashboard pipelines that have not finished
  now,                \* the clock new Date() reads, in milliseconds
  formEmail,              \* RegistrationFormComponent: email control value
  formPassword,           \* password control value
  formConfirmPassword,    \* confirmPassword control value
  emailTouched,           \* RegistrationFormComponent.emailTouched
  passwordTouched,        \* RegistrationFormComponent.passwordTouched
  confirmPasswordTouched, \* RegistrationFormComponent.confirmPasswordTouched
  formIsLoading,          \* RegistrationFormComponent.isLoading input
  formEmitted,            \* what onSubmit emitted in the last step, or Null
  lastEvent           \* history: the response the last step handled, or NoEvent

pwdVars == <<password, strengthResult, analysis>>

clsVars == <<clsInput, clsLogin, clsRegistration, clsDashboard>>

storageVars == <<localStorage, sessionStorage>>

signalVars ==
  <<accessTokenSignal, refreshTokenSignal, userIdSignal, userEmailSignal>>

routerVars == <<routerUrl, pendingNav, navAdmitted>>

loginVars ==
  <<loginAlive, loginIsLoading, loginError, loginReturnUrl, loginFormValue,
    loginRequests>>

regVars ==
  <<regAlive, regIsLoading, regError, regIsSuccess, regRegisteredEmail,
    regUser, regRequests>>

dashVars ==
  <<dashAlive, retryCount, dashboardData_, loading_, error_,
    lastRefreshTime_, fetches>>

formVars ==
  <<formEmail, formPassword, formConfirmPassword, emailTouched,
    passwordTouched, confirmPasswordTouched, formIsLoading, formEmitted>>

\* everything outside the registration form
hostVars ==
  <<storageVars, signalVars, routerVars, loginVars, regVars, dashVars,
    now, lastEvent>>

appVars == <<hostVars, formVars>>

vars == <<pwdVars, clsVars, appVars>>

\* null where an object is expected
Null == [null |-> TRUE]

\* the indicator after construction: password = input(''), nothing analysed
PwdStart ==
  /\ password = <<>>
  /\ strengthResult = Null
  /\ analysis = Null

\* no error object has been handed to the classifiers
ClsIdle ==
  /\ clsInput = Null
  /\ clsLogin = Null
  /\ clsRegistration = Null
  /\ clsDashboard = Null

\* null where a string is expected
NullStr == "<null>"

\* no navigation requested
NoNav == <<>>

\* the last step handled no response
NoEvent == [kind |-> "none"]

StorageKeys == {"access_token", "refresh_token", "user_id", "user_email"}

EmptyStorage == [k \in StorageKeys |-> NullStr]

\* the registration form after ngOnInit: empty controls, nothing touched
FormStart ==
  /\ formEmail = <<>>
  /\ formPassword = <<>>
  /\ formConfirmPassword = <<>>
  /\ emailTouched = FALSE
  /\ passwordTouched = FALSE
  /\ confirmPasswordTouched = FALSE
  /\ formIsLoading = FALSE
  /\ formEmitted = Null

\* the application before it is bootstrapped: nothing stored, no component
AppIdle ==
  /\ FormStart
  /\ localStorage = EmptyStorage
  /\ sessionStorage = EmptyStorage
  /\ accessTokenSignal = NullStr
  /\ refreshTokenSignal = NullStr
  /\ userIdSignal = NullStr
  /\ userEmailSignal = NullStr
  /\ routerUrl = <<"/">>
  /\ pendingNav = NoNav
  /\ navAdmitted = FALSE
  /\ loginAlive = FALSE
  /\ loginIsLoading = FALSE
  /\ loginError = Null
  /\ loginReturnUrl = <<"/dashboard">>
  /\ loginFormValue = [email |-> "", password |-> ""]
  /\ loginRequests = <<>>
  /\ regAlive = FALSE
  /\ regIsLoading = FALSE
  /\ regError = Null
  /\ regIsSuccess = FALSE
  /\ regRegisteredEmail = NullStr
  /\ regUser = Null
  /\ regRequests = <<>>
  /\ dashAlive = FALSE
  /\ retryCount = 0
  /\ dashboardData_ = Null
  /\ loading_ = FALSE
  /\ error_ = Null
  /\ lastRefreshTime_ = Null
  /\ fetches = <<>>
  /\ now = 0
  /\ lastEvent = NoEvent

(***************************************************************************)
(* Bounds                                                                  *)
(***************************************************************************)
\* longest password typed from the core characters
MaxLen == 6
\* longest password typed from the punctuation and the class boundaries
ShortLen == 2
\* largest retryAfter (seconds) a 429 body carries
MaxRetryAfter == 125

(***************************************************************************)
(* Character classes of password-strength.ts                               *)
(***************************************************************************)
UpperChars ==
  {"A","B","C","D","E","F","G","H","I","J","K","L","M",
   "N","O","P","Q","R","S","T","U","V","W","X","Y","Z"}

LowerChars ==
  {"a","b","c","d","e","f","g","h","i","j","k","l","m",
   "n","o","p","q","r","s","t","u","v","w","x","y","z"}

DigitChars == {"0","1","2","3","4","5","6","7","8","9"}

\* the class without the question mark (a character dropped from the class)
SpecialCharsNoQuestionMark ==
  {"!","@","#","$","%","^","&","*","(",")","_","+","-","=",
   "[","]","{","}",";","'",":","\"","\\","|",",",".","<",">","/"}

\* /[!@#$%^&*()_+\-=\[\]{};':"\\|,.<>\/?]/
SpecialChars ==
  {"!","@","#","$","%","^","&","*","(",")","_","+","-","=",
   "[","]","{","}",";","'",":","\"","\\","|",",",".","<",">","/","?"}

\* the 32 ASCII punctuation characters; the grave accent (U+0060) is
\* written "grave"
AsciiPunctuation ==
  {"!","\"","#","$","%","&","'","(",")","*","+",",","-",".","/",
   ":",";","<","=",">","?","@","[","\\","]","^","_","grave","{","|","}","~"}

\* every ASCII punctuation character, the letters, the digits and the space
AsciiChars ==
  UpperChars \cup LowerChars \cup DigitChars \cup AsciiPunctuation \cup {" "}

\* all punctuation, the space and the first and last character of each
\* letter and digit class, used for the short passwords
WideChars == AsciiPunctuation \cup {" ", "A", "Z", "a", "z", "0", "9"}

\* one representative of each class, used for the longer passwords
CoreChars == {"A", "a", "1", "!", " "}

MinPasswordLength == 6

(***************************************************************************)
(* PasswordStrengthAnalyzer                                                *)
(***************************************************************************)
\* RegExp.prototype.test for a character class: some character is in it
Test(class, p) == \E i \in 1..Len(p) : p[i] \in class

CriteriaNames ==
  <<"hasMinLength", "hasUppercase", "hasLowercase", "hasNumbers",
    "hasSpecialChars">>

\* criteria whose minimum length is 4
CriteriaShortMinimum(p) ==
  [hasMinLength    |-> Len(p) >= 4,
   hasUppercase    |-> Test(UpperChars, p),
   hasLowercase    |-> Test(LowerChars, p),
   hasNumbers      |-> Test(DigitChars, p),
   hasSpecialChars |-> Test(SpecialChars, p)]

Criteria(p) ==
  [hasMinLength    |-> Len(p) >= MinPasswordLength,
   hasUppercase    |-> Test(UpperChars, p),
   hasLowercase    |-> Test(LowerChars, p),
   hasNumbers      |-> Test(DigitChars, p),
   hasSpecialChars |-> Test(SpecialChars, p)]

\* Object.values(criteria).forEach((met) => { if (met) score++; })
RECURSIVE ScoreLoop(_, _)
ScoreLoop(criteria, k) ==
  IF k = 0 THEN 0
  ELSE ScoreLoop(criteria, k - 1)
         + (IF criteria[CriteriaNames[k]] THEN 1 ELSE 0)

\* a level table whose second threshold is off by one
scoreToLevelShifted(score) ==
  IF score <= 1 THEN "weak"
  ELSE IF score <= 3 THEN "fair"
  ELSE IF score <= 3 THEN "good"
  ELSE "strong"

scoreToLevel(score) ==
  IF score <= 1 THEN "weak"
  ELSE IF score <= 2 THEN "fair"
  ELSE IF score <= 3 THEN "good"
  ELSE "strong"

\* feedback that forgets the numbers entry
generateFeedbackNoNumbers(criteria) ==
  (IF ~criteria.hasMinLength THEN <<"At least 6 characters">> ELSE <<>>)
  \o (IF ~criteria.hasUppercase THEN <<"Include uppercase letter">> ELSE <<>>)
  \o (IF ~criteria.hasLowercase THEN <<"Include lowercase letter">> ELSE <<>>)
  \o (IF ~criteria.hasSpecialChars THEN <<"Include special character">> ELSE <<>>)

generateFeedback(criteria) ==
  (IF ~criteria.hasMinLength THEN <<"At least 6 characters">> ELSE <<>>)
  \o (IF ~criteria.hasUppercase THEN <<"Include uppercase letter">> ELSE <<>>)
  \o (IF ~criteria.hasLowercase THEN <<"Include lowercase letter">> ELSE <<>>)
  \o (IF ~criteria.hasNumbers THEN <<"Include a number">> ELSE <<>>)
  \o (IF ~criteria.hasSpecialChars THEN <<"Include special character">> ELSE <<>>)

\* an analysis whose score loop skips the last criterion
analyzeFourCriteria(p) ==
  LET criteria == Criteria(p)
      score    == ScoreLoop(criteria, 4)
  IN  [score    |-> score,
       level    |-> scoreToLevel(score),
       feedback |-> generateFeedback(criteria),
       criteria |-> criteria]

analyze(p) ==
  LET criteria == Criteria(p)
      score    == ScoreLoop(criteria, 5)
  IN  [score    |-> score,
       level    |-> scoreToLevel(score),
       feedback |-> generateFeedback(criteria),
       criteria |-> criteria]

(***************************************************************************)
(* HTTP errors                                                             *)
(***************************************************************************)
\* undefined where an object is expected (an absent optional field)
Undefined == [undefined |-> TRUE]

\* the empty object literal {}
EmptyObject == [emptyObject |-> TRUE]

\* error.error of an HttpErrorResponse whose response carried no JSON body
NullBody == [isNull |-> TRUE]

\* error.error = { error: { code, message, details } }; message "" stands
\* for an absent or empty message (both are falsy)
JsonBody(message, details) ==
  [isNull |-> FALSE, message |-> message, details |-> details]

\* an HttpErrorResponse: name, status and the parsed body
HttpErrorResponse(status, body) ==
  [name |-> "HttpErrorResponse", hasStatus |-> TRUE, status |-> status,
   message |-> "Http failure response", error |-> body]

\* new Error(message): no status property, no error property
PlainError(message) ==
  [name |-> "Error", hasStatus |-> FALSE, status |-> 0,
   message |-> message, error |-> NullBody]

\* the TimeoutError of rxjs timeout(): no status property
TimeoutError ==
  [name |-> "TimeoutError", hasStatus |-> FALSE, status |-> 0,
   message |-> "Timeout has occurred", error |-> NullBody]

\* error.status === n (false when status is undefined)
StatusIs(error, n) == error.hasStatus /\ error.status = n

\* error.status >= n (undefined >= n is false)
StatusAtLeast(error, n) == error.hasStatus /\ error.status >= n

\* error.error?.error?.message || fallback
ApiMessageOr(error, fallback) ==
  IF error.error.isNull \/ error.error.message = ""
  THEN fallback
  ELSE error.error.message

\* error.error?.error?.details
ApiDetails(error) ==
  IF error.error.isNull THEN Undefined ELSE error.error.details

DefaultRetryAfter == 900

\* error.error?.error?.details?.retryAfter || 900: an absent field and the
\* falsy number 0 both take the default
RetryAfterOrDefault(error) ==
  LET details == ApiDetails(error)
  IN  IF "retryAfter" \in DOMAIN details /\ details.retryAfter # 0
      THEN details.retryAfter
      ELSE DefaultRetryAfter

\* Math.ceil(a / b) for integers a and b > 0
CeilDiv(a, b) == -((-a) \div b)

(***************************************************************************)
(* LoginComponent.mapApiErrorToLoginError                                  *)
(***************************************************************************)
LoginErr(code, message, details) ==
  [code |-> code, message |-> message, details |-> details]

mapApiErrorToLoginError(error) ==
  IF StatusIs(error, 0)
  THEN LoginErr("NETWORK_ERROR",
                "Network connection error. Please check your internet connection.",
                Undefined)
  ELSE IF StatusIs(error, 400)
  THEN LoginErr("VALIDATION_ERROR", ApiMessageOr(error, "Invalid input"),
                ApiDetails(error))
  ELSE IF StatusIs(error, 401)
  THEN LoginErr("INVALID_CREDENTIALS", "Invalid email or password", Undefined)
  ELSE IF StatusIs(error, 429)
  THEN LoginErr("RATE_LIMITED",
                "Too many login attempts. Please try again in "
                  \o ToString(CeilDiv(RetryAfterOrDefault(error), 60))
                  \o " minutes.",
                [retryAfter |-> RetryAfterOrDefault(error)])
  ELSE IF StatusAtLeast(error, 500)
  THEN LoginErr("SERVER_ERROR",
                "An unexpected error occurred. Please try again later.",
                Undefined)
  ELSE LoginErr("SERVER_ERROR",
                "An unexpected error occurred. Please try again later.",
                Undefined)

(***************************************************************************)
(* RegistrationComponent.mapApiErrorToRegistrationError                    *)
(***************************************************************************)
mapApiErrorToRegistrationError(error) ==
  IF StatusIs(error, 0)
  THEN LoginErr("NETWORK_ERROR",
                "Network connection error. Please check your internet connection.",
                Undefined)
  ELSE IF StatusIs(error, 400)
  THEN LoginErr("VALIDATION_ERROR",
                ApiMessageOr(error, "Invalid input. Please check your entries."),
                ApiDetails(error))
  ELSE IF StatusIs(error, 409)
  THEN LoginErr("EMAIL_EXISTS",
                "This email address is already registered. Please sign in instead.",
                [field |-> "email", action |-> "sign-in"])
  ELSE IF StatusIs(error, 422)
  THEN LoginErr("WEAK_PASSWORD",
                "Password does not meet strength requirements. Please choose a stronger password.",
                [field |-> "password"])
  ELSE IF StatusIs(error, 429)
  THEN LoginErr("RATE_LIMITED",
                "Too many registration attempts. Please try again in "
                  \o ToString(CeilDiv(RetryAfterOrDefault(error), 60))
                  \o " minutes.",
                [retryAfter |-> RetryAfterOrDefault(error)])
  ELSE IF StatusAtLeast(error, 500)
  THEN LoginErr("SERVER_ERROR",
                "An unexpected error occurred. Please try again later.",
                Undefined)
  ELSE LoginErr("SERVER_ERROR",
                "An unexpected error occurred. Please try again later.",
                Undefined)

(***************************************************************************)
(* DashboardService.isRetryableError / handleError                         *)
(***************************************************************************)
isRetryableError(error) ==
  \/ StatusIs(error, 0)
  \/ error.name = "TimeoutError"
  \/ StatusAtLeast(error, 500)

\* ErrorState without its timestamp (new Date(), display only)
ErrorState(code, message, details, type, recoverable) ==
  [code |-> code, message |-> message, details |-> details, type |-> type,
   recoverable |-> recoverable]

handleError(error) ==
  IF StatusIs(error, 0) \/ error.name = "TimeoutError"
  THEN ErrorState("NETWORK_ERROR",
                  "Network connection lost. Please check your connection.",
                  Undefined, "network", TRUE)
  ELSE IF StatusIs(error, 401)
  THEN ErrorState("UNAUTHORIZED",
                  "Your session has expired. Please log in again.",
                  Undefined, "unauthorized", FALSE)
  ELSE IF StatusIs(error, 400)
  THEN ErrorState("VALIDATION_ERROR",
                  "Invalid query parameters. Please try again.",
                  IF ApiDetails(error) = Undefined
                    THEN EmptyObject ELSE ApiDetails(error),
                  "validation", TRUE)
  ELSE IF StatusAtLeast(error, 500)
  THEN ErrorState("SERVER_ERROR",
                  "An unexpected error occurred. Please try again later.",
                  Undefined, "server", TRUE)
  ELSE ErrorState("UNKNOWN_ERROR",
                  "An unexpected error occurred. Please try again.",
                  Undefined, "server", TRUE)

(***************************************************************************)
(* The classifiers applied to every error object                           *)
(***************************************************************************)
\* response statuses handed to the classifiers
Statuses == {0, 400, 401, 403, 404, 409, 418, 422, 429, 500, 503, 999}

RetryAfterValues == 0..MaxRetryAfter

DetailsValues ==
  {Undefined, [field |-> "email"]}
    \cup {[retryAfter |-> r] : r \in RetryAfterValues}

ApiMessages == {"", "Email format is invalid"}

Bodies ==
  {NullBody} \cup {JsonBody(m, d) : m \in ApiMessages, d \in DetailsValues}

ErrorInputs ==
  {HttpErrorResponse(s, b) : s \in Statuses, b \in Bodies}
    \cup {TimeoutError, PlainError("Unauthorized - Session expired"),
          PlainError("Network connection failed")}

InitClassify ==
  /\ PwdStart
  /\ AppIdle
  /\ clsInput \in ErrorInputs
  /\ clsLogin = Null
  /\ clsRegistration = Null
  /\ clsDashboard = Null

ClassifyLogin ==
  /\ clsInput # Null
  /\ clsLogin = Null
  /\ clsLogin' = mapApiErrorToLoginError(clsInput)
  /\ UNCHANGED <<clsInput, clsRegistration, clsDashboard>>
  /\ UNCHANGED <<pwdVars, appVars>>

ClassifyRegistration ==
  /\ clsInput # Null
  /\ clsRegistration = Null
  /\ clsRegistration' = mapApiErrorToRegistrationError(clsInput)
  /\ UNCHANGED <<clsInput, clsLogin, clsDashboard>>
  /\ UNCHANGED <<pwdVars, appVars>>

ClassifyDashboard ==
  /\ clsInput # Null
  /\ clsDashboard = Null
  /\ clsDashboard' = handleError(clsInput)
  /\ UNCHANGED <<clsInput, clsLogin, clsRegistration>>
  /\ UNCHANGED <<pwdVars, appVars>>

NextClassify ==
  \/ ClassifyLogin
  \/ ClassifyRegistration
  \/ ClassifyDashboard

SpecClassify == InitClassify /\ [][NextClassify]_vars

(***************************************************************************)
(* PasswordStrengthIndicatorComponent                                      *)
(***************************************************************************)
\* a getter that analyses the empty string too
strengthResultGetterNoGuard(pwd) == analyze(pwd)

\* get strengthResult(): pwd ? analyze(pwd) : null
strengthResultGetter(pwd) ==
  IF pwd # <<>> THEN analyze(pwd) ELSE Null

\* the passwords the model types
InPasswordSpace(p) ==
  \/ Len(p) <= 1
  \/ /\ Len(p) <= ShortLen
     /\ \A i \in 1..Len(p) : p[i] \in WideChars
  \/ /\ Len(p) <= MaxLen
     /\ \A i \in 1..Len(p) : p[i] \in CoreChars

InitPwd ==
  /\ PwdStart
  /\ ClsIdle
  /\ AppIdle

\* the password field changes by one typed character; the view re-renders
PasswordInput(c) ==
  /\ InPasswordSpace(Append(password, c))
  /\ password' = Append(password, c)
  /\ strengthResult' = strengthResultGetter(password')
  /\ analysis' = Null
  /\ UNCHANGED <<clsVars, appVars>>

\* the password field changes by one deleted character; the view re-renders
PasswordBackspace ==
  /\ password # <<>>
  /\ password' = SubSeq(password, 1, Len(password) - 1)
  /\ strengthResult' = strengthResultGetter(password')
  /\ analysis' = Null
  /\ UNCHANGED <<clsVars, appVars>>

\* a direct call of PasswordStrengthAnalyzer.analyze on the current value
Analyze ==
  /\ analysis = Null
  /\ analysis' = [input |-> password, result |-> analyze(password)]
  /\ UNCHANGED <<password, strengthResult>>
  /\ UNCHANGED <<clsVars, appVars>>

NextPwd ==
  \/ \E c \in AsciiChars : PasswordInput(c)
  \/ PasswordBackspace
  \/ Analyze

SpecPwd == InitPwd /\ [][NextPwd]_vars

(***************************************************************************)
(* AuthService                                                             *)
(***************************************************************************)
\* isAuthenticated(): !!this.accessTokenSignal()
isAuthenticated == accessTokenSignal # NullStr

\* the response of a successful sign-in
SignInResponseDto(email, confirmed) ==
  [user    |-> [id |-> "user-1", email |-> email,
                email_confirmed_at |->
                  IF confirmed THEN "2025-01-01T00:00:00Z" ELSE NullStr],
   session |-> [access_token |-> "access-1", refresh_token |-> "refresh-1"]]

\* storeTokens(response): the four localStorage keys and the four signals
storeTokens(response) ==
  /\ localStorage' =
       [localStorage EXCEPT !["access_token"] = response.session.access_token,
                            !["refresh_token"] = response.session.refresh_token,
                            !["user_id"] = response.user.id,
                            !["user_email"] = response.user.email]
  /\ accessTokenSignal' = response.session.access_token
  /\ refreshTokenSignal' = response.session.refresh_token
  /\ userIdSignal' = response.user.id
  /\ userEmailSignal' = response.user.email
  /\ UNCHANGED sessionStorage

(***************************************************************************)
(* authInterceptor                                                         *)
(***************************************************************************)
\* clearAuthTokens() on one storage
clearAuthTokens(storage) ==
  [storage EXCEPT !["access_token"] = NullStr, !["refresh_token"] = NullStr]

\* handleAuthError(error, router): the error it rethrows, whether it clears
\* the stored tokens, and the navigation it asks the router for
handleAuthError(error, url) ==
  IF StatusIs(error, 401)
  THEN [thrown   |-> PlainError("Unauthorized - Session expired"),
        clear    |-> TRUE,
        navigate |-> <<"/login">> \o url]
  ELSE IF StatusIs(error, 403)
  THEN [thrown |-> error, clear |-> FALSE, navigate |-> NoNav]
  ELSE IF StatusIs(error, 0)
  THEN [thrown   |-> PlainError("Network connection failed"),
        clear    |-> FALSE,
        navigate |-> NoNav]
  ELSE [thrown |-> error, clear |-> FALSE, navigate |-> NoNav]

\* the storage after the interceptor's catchError handled a response
InterceptorStorage(h) ==
  /\ localStorage' =
       IF h.clear THEN clearAuthTokens(localStorage) ELSE localStorage
  /\ sessionStorage' =
       IF h.clear THEN clearAuthTokens(sessionStorage) ELSE sessionStorage

(***************************************************************************)
(* authGuard                                                               *)
(***************************************************************************)
\* NoNav when the route may activate, else the UrlTree /login?returnUrl=url
authGuard(stateUrl) ==
  IF isAuthenticated THEN NoNav ELSE <<"/login">> \o stateUrl

(***************************************************************************)
(* Router.navigate                                                         *)
(***************************************************************************)
\* router.navigate(url): the navigation asked for replaces the one in
\* progress; NoNav stands for no call
routerNavigate(url) ==
  IF url = NoNav
  THEN UNCHANGED <<pendingNav, navAdmitted>>
  ELSE /\ pendingNav' = url
       /\ navAdmitted' = FALSE

(***************************************************************************)
(* Bounds and inputs of the application                                    *)
(***************************************************************************)
\* most fetchDashboard pipelines unfinished at one time
MaxFetches == 2
\* deepest nesting of returnUrl inside the router URL
MaxUrlDepth == 2
\* most authentication requests of one component in flight at one time
MaxInFlight == 2

\* retry({ count: 2 })
RetryConfigCount == 2
\* DashboardComponent.maxRetries
maxRetries == 3

\* statuses and bodies the server answers with
AppStatuses == {0, 400, 401, 500}

AppBodies == {NullBody, JsonBody("Wrong password", Undefined)}

\* sign-up is also answered 429 when the rate limit is hit
SignUpStatuses == AppStatuses \cup {429}

SignInRequests == {[email |-> "user@example.com", password |-> "secret"]}

SignUpRequests == {[email |-> "user@example.com", password |-> "Secret1!"]}

\* the sequence without its i-th element
RemoveAt(seq, i) == SubSeq(seq, 1, i - 1) \o SubSeq(seq, i + 1, Len(seq))

(***************************************************************************)
(* LoginComponent                                                          *)
(***************************************************************************)
\* ngOnDestroy: takeUntil(destroy$) drops the requests in flight
LoginDestroyed ==
  /\ loginAlive' = FALSE
  /\ loginIsLoading' = FALSE
  /\ loginError' = Null
  /\ loginReturnUrl' = <<"/dashboard">>
  /\ loginFormValue' = [email |-> "", password |-> ""]
  /\ loginRequests' = <<>>

\* onSubmit(request): a submit while isLoading returns at once
LoginSubmit(request) ==
  /\ loginAlive
  /\ IF loginIsLoading
     THEN UNCHANGED loginVars
     ELSE /\ Len(loginRequests) < MaxInFlight
          /\ loginIsLoading' = TRUE
          /\ loginError' = Null
          /\ loginFormValue' = request
          /\ loginRequests' = Append(loginRequests, [body |-> request])
          /\ UNCHANGED <<loginAlive, loginReturnUrl>>
  /\ lastEvent' = NoEvent
  /\ UNCHANGED <<storageVars, signalVars, routerVars, regVars, dashVars>>
  /\ UNCHANGED <<pwdVars, clsVars, formVars, now>>

\* a handleSignInSuccess that navigates without looking at the response
handleSignInSuccessNoCheck(response) ==
  /\ loginIsLoading' = FALSE
  /\ loginError' = Null
  /\ routerNavigate(loginReturnUrl)

\* handleSignInSuccess(response)
handleSignInSuccess(response) ==
  /\ loginIsLoading' = FALSE
  /\ IF response.user.email_confirmed_at = NullStr
     THEN /\ loginError' =
               LoginErr("UNVERIFIED_EMAIL",
                        "Please verify your email address to continue.",
                        Undefined)
          /\ UNCHANGED <<pendingNav, navAdmitted>>
     ELSE /\ loginError' = Null
          /\ routerNavigate(loginReturnUrl)

\* a 2xx sign-in response: AuthService.signIn's tap, then handleSignInSuccess
SignInSuccess(i, confirmed) ==
  /\ i \in 1..Len(loginRequests)
  /\ LET response == SignInResponseDto(loginRequests[i].body.email, confirmed)
     IN  /\ storeTokens(response)
         /\ handleSignInSuccess(response)
  /\ loginRequests' = RemoveAt(loginRequests, i)
  /\ lastEvent' = [kind |-> "SignInSuccess", confirmed |-> confirmed]
  /\ UNCHANGED <<loginAlive, loginReturnUrl, loginFormValue>>
  /\ UNCHANGED <<routerUrl, regVars, dashVars>>
  /\ UNCHANGED <<pwdVars, clsVars, formVars, now>>

\* an error sign-in response: the interceptor's catchError, AuthService's
\* rethrow, then the component's catchError
SignInError(i, status, body) ==
  /\ i \in 1..Len(loginRequests)
  /\ status = 401 => Len(routerUrl) < MaxUrlDepth
  /\ LET h == handleAuthError(HttpErrorResponse(status, body), routerUrl)
     IN  /\ InterceptorStorage(h)
         /\ routerNavigate(h.navigate)
         /\ loginIsLoading' = FALSE
         /\ loginError' = mapApiErrorToLoginError(h.thrown)
  /\ loginRequests' = RemoveAt(loginRequests, i)
  /\ lastEvent' = [kind |-> "SignInError", status |-> status]
  /\ UNCHANGED <<loginAlive, loginReturnUrl, loginFormValue>>
  /\ UNCHANGED <<signalVars, routerUrl, regVars, dashVars>>
  /\ UNCHANGED <<pwdVars, clsVars, formVars, now>>

\* a timeout that drops the request and leaves isLoading as it was
SignInTimeoutKeepsLoading(i) ==
  /\ i \in 1..Len(loginRequests)
  /\ loginRequests' = RemoveAt(loginRequests, i)
  /\ lastEvent' = [kind |-> "SignInTimeout"]
  /\ UNCHANGED <<loginAlive, loginIsLoading, loginError, loginReturnUrl,
                 loginFormValue>>
  /\ UNCHANGED <<storageVars, signalVars, routerVars, regVars, dashVars>>
  /\ UNCHANGED <<pwdVars, clsVars, formVars, now>>

\* timeout(10000) fires before any response
SignInTimeout(i) ==
  /\ i \in 1..Len(loginRequests)
  /\ loginIsLoading' = FALSE
  /\ loginError' = mapApiErrorToLoginError(TimeoutError)
  /\ loginRequests' = RemoveAt(loginRequests, i)
  /\ lastEvent' = [kind |-> "SignInTimeout"]
  /\ UNCHANGED <<loginAlive, loginReturnUrl, loginFormValue>>
  /\ UNCHANGED <<storageVars, signalVars, routerVars, regVars, dashVars>>
  /\ UNCHANGED <<pwdVars, clsVars, formVars, now>>

\* onErrorDismiss()
LoginErrorDismiss ==
  /\ loginAlive
  /\ loginError # Null
  /\ loginError' = Null
  /\ lastEvent' = NoEvent
  /\ UNCHANGED <<loginAlive, loginIsLoading, loginReturnUrl, loginFormValue,
                 loginRequests>>
  /\ UNCHANGED <<storageVars, signalVars, routerVars, regVars, dashVars>>
  /\ UNCHANGED <<pwdVars, clsVars, formVars, now>>

(***************************************************************************)
(* RegistrationComponent                                                   *)
(***************************************************************************)
\* ngOnDestroy: takeUntil(destroy$) drops the requests in flight
RegistrationDestroyed ==
  /\ regAlive' = FALSE
  /\ regIsLoading' = FALSE
  /\ regError' = Null
  /\ regIsSuccess' = FALSE
  /\ regRegisteredEmail' = NullStr
  /\ regUser' = Null
  /\ regRequests' = <<>>

\* an onSubmit without the isLoading check
RegistrationSubmitNoGuard(request) ==
  /\ regAlive
  /\ Len(regRequests) < MaxInFlight
  /\ regIsLoading' = TRUE
  /\ regError' = Null
  /\ regRequests' = Append(regRequests, [body |-> request])
  /\ lastEvent' = NoEvent
  /\ UNCHANGED <<regAlive, regIsSuccess, regRegisteredEmail, regUser>>
  /\ UNCHANGED <<storageVars, signalVars, routerVars, loginVars, dashVars>>
  /\ UNCHANGED <<pwdVars, clsVars, formVars, now>>

\* onSubmit(request): a submit while isLoading() returns at once
RegistrationSubmit(request) ==
  /\ regAlive
  /\ IF regIsLoading
     THEN UNCHANGED regVars
     ELSE /\ Len(regRequests) < MaxInFlight
          /\ regIsLoading' = TRUE
          /\ regError' = Null
          /\ regRequests' = Append(regRequests, [body |-> request])
          /\ UNCHANGED <<regAlive, regIsSuccess, regRegisteredEmail, regUser>>
  /\ lastEvent' = NoEvent
  /\ UNCHANGED <<storageVars, signalVars, routerVars, loginVars, dashVars>>
  /\ UNCHANGED <<pwdVars, clsVars, formVars, now>>

\* handleRegistrationSuccess(response)
handleRegistrationSuccess(response) ==
  /\ regIsLoading' = FALSE
  /\ regUser' = response.user
  /\ regRegisteredEmail' = response.user.email
  /\ regIsSuccess' = TRUE
  /\ regError' = Null

\* a 2xx sign-up response for a user whose email is not confirmed yet:
\* AuthService.signUp's tap, then handleRegistrationSuccess
SignUpSuccess(i) ==
  /\ i \in 1..Len(regRequests)
  /\ LET response == SignInResponseDto(regRequests[i].body.email, FALSE)
     IN  /\ storeTokens(response)
         /\ handleRegistrationSuccess(response)
  /\ regRequests' = RemoveAt(regRequests, i)
  /\ lastEvent' = [kind |-> "SignUpSuccess"]
  /\ UNCHANGED regAlive
  /\ UNCHANGED <<routerVars, loginVars, dashVars>>
  /\ UNCHANGED <<pwdVars, clsVars, formVars, now>>

\* an error sign-up response: the interceptor's catchError, AuthService's
\* rethrow, then the component's catchError
SignUpError(i, status, body) ==
  /\ i \in 1..Len(regRequests)
  /\ status = 401 => Len(routerUrl) < MaxUrlDepth
  /\ LET h == handleAuthError(HttpErrorResponse(status, body), routerUrl)
     IN  /\ InterceptorStorage(h)
         /\ routerNavigate(h.navigate)
         /\ regIsLoading' = FALSE
         /\ regError' = mapApiErrorToRegistrationError(h.thrown)
  /\ regRequests' = RemoveAt(regRequests, i)
  /\ lastEvent' = [kind |-> "SignUpError", status |-> status]
  /\ UNCHANGED <<regAlive, regIsSuccess, regRegisteredEmail, regUser>>
  /\ UNCHANGED <<signalVars, routerUrl, loginVars, dashVars>>
  /\ UNCHANGED <<pwdVars, clsVars, formVars, now>>

\* timeout(10000) fires before any response
SignUpTimeout(i) ==
  /\ i \in 1..Len(regRequests)
  /\ regIsLoading' = FALSE
  /\ regError' = mapApiErrorToRegistrationError(TimeoutError)
  /\ regRequests' = RemoveAt(regRequests, i)
  /\ lastEvent' = [kind |-> "SignUpTimeout"]
  /\ UNCHANGED <<regAlive, regIsSuccess, regRegisteredEmail, regUser>>
  /\ UNCHANGED <<storageVars, signalVars, routerVars, loginVars, dashVars>>
  /\ UNCHANGED <<pwdVars, clsVars, formVars, now>>

\* onErrorDismiss()
RegistrationErrorDismiss ==
  /\ regAlive
  /\ regError # Null
  /\ regError' = Null
  /\ lastEvent' = NoEvent
  /\ UNCHANGED <<regAlive, regIsLoading, regIsSuccess, regRegisteredEmail,
                 regUser, regRequests>>
  /\ UNCHANGED <<storageVars, signalVars, routerVars, loginVars, dashVars>>
  /\ UNCHANGED <<pwdVars, clsVars, formVars, now>>

(***************************************************************************)
(* DashboardService                                                        *)
(***************************************************************************)
\* 2^n for the backoff delay
RECURSIVE Pow2(_)
Pow2(n) == IF n = 0 THEN 1 ELSE 2 * Pow2(n - 1)

\* delayMs = Math.pow(2, retryCount - 1) * 1000
RetryDelayMs(retryIndex) == Pow2(retryIndex - 1) * 1000

\* a fetchDashboard pipeline just subscribed: its first HTTP attempt is in
\* flight; subscriber is the caller whose callbacks are attached and
\* ownerLive tells whether that DashboardComponent instance still exists
NewFetch(subscriber) ==
  [state |-> "inflight", attempt |-> 1, delayMs |-> 0,
   subscriber |-> subscriber, ownerLive |-> TRUE, newest |-> TRUE]

\* fetchDashboard(): loading$ and error$ are reset and the request is sent
fetchDashboard(subscriber) ==
  /\ loading_' = TRUE
  /\ error_' = Null
  /\ fetches' =
       Append([k \in 1..Len(fetches) |->
                 [fetches[k] EXCEPT !.newest = FALSE]],
              NewFetch(subscriber))
  /\ UNCHANGED <<dashboardData_, lastRefreshTime_>>

\* DashboardComponent.handleError(error): the navigation it asks for
DashboardComponentHandleError(errorState) ==
  IF errorState.type = "unauthorized"
  THEN <<"/login", "/dashboard">>
  ELSE NoNav

\* a catchError that also drops the data held
FetchFailsDropsData(i, err, interceptorNav, cause, status) ==
  LET f == fetches[i]
      errorState == handleError(err)
      componentNav ==
        IF f.subscriber = "loadDashboard"
        THEN DashboardComponentHandleError(errorState)
        ELSE NoNav
  IN  /\ error_' = errorState
      /\ loading_' = FALSE
      /\ fetches' = RemoveAt(fetches, i)
      /\ routerNavigate(IF componentNav # NoNav THEN componentNav
                        ELSE interceptorNav)
      /\ lastEvent' =
           [kind |-> "FetchFailed", cause |-> cause, status |-> status,
            attempts |-> f.attempt, subscriber |-> f.subscriber,
            componentNav |-> componentNav]
      /\ dashboardData_' = Null
      /\ UNCHANGED <<lastRefreshTime_, dashAlive, retryCount>>

\* the pipeline of fetches[i] ends in error: catchError sets error$ and
\* loading$, and the subscriber's error callback runs
FetchFails(i, err, interceptorNav, cause, status) ==
  LET f == fetches[i]
      errorState == handleError(err)
      componentNav ==
        IF f.subscriber = "loadDashboard"
        THEN DashboardComponentHandleError(errorState)
        ELSE NoNav
  IN  /\ error_' = errorState
      /\ loading_' = FALSE
      /\ fetches' = RemoveAt(fetches, i)
      /\ routerNavigate(IF componentNav # NoNav THEN componentNav
                        ELSE interceptorNav)
      /\ lastEvent' =
           [kind |-> "FetchFailed", cause |-> cause, status |-> status,
            attempts |-> f.attempt, subscriber |-> f.subscriber,
            componentNav |-> componentNav]
      /\ UNCHANGED <<dashboardData_, lastRefreshTime_, dashAlive, retryCount>>

\* retry's delay callback returned timer(delayMs): the pipeline waits
FetchBacksOff(i, interceptorNav, cause, status) ==
  /\ fetches' = [fetches EXCEPT ![i].state = "backoff",
                                ![i].delayMs = RetryDelayMs(fetches[i].attempt)]
  /\ routerNavigate(interceptorNav)
  /\ lastEvent' = [kind |-> "FetchRetried", cause |-> cause,
                   status |-> status, attempts |-> fetches[i].attempt]
  /\ UNCHANGED <<dashboardData_, loading_, error_, lastRefreshTime_,
                 dashAlive, retryCount>>

\* retry({count, delay}) on an error of attempt number fetches[i].attempt
RetryOrFail(i, err, interceptorNav, cause, status) ==
  IF fetches[i].attempt - 1 < RetryConfigCount /\ isRetryableError(err)
  THEN FetchBacksOff(i, interceptorNav, cause, status)
  ELSE FetchFails(i, err, interceptorNav, cause, status)

\* a 2xx response: tap sets the four subjects; the component's next
\* callback resets retryCount
DashboardResponseOk(i) ==
  /\ i \in 1..Len(fetches)
  /\ fetches[i].state = "inflight"
  /\ dashboardData_' = [summary |-> "summary", recent_reports |-> "reports"]
  /\ lastRefreshTime_' = [date |-> now]
  /\ error_' = Null
  /\ loading_' = FALSE
  /\ fetches' = RemoveAt(fetches, i)
  /\ retryCount' =
       IF fetches[i].subscriber = "loadDashboard" /\ fetches[i].ownerLive
       THEN 0 ELSE retryCount
  /\ lastEvent' = [kind |-> "FetchSucceeded",
                   subscriber |-> fetches[i].subscriber,
                   ownerLive |-> fetches[i].ownerLive]
  /\ UNCHANGED dashAlive
  /\ UNCHANGED <<storageVars, signalVars, routerVars, loginVars, regVars>>
  /\ UNCHANGED <<pwdVars, clsVars, formVars, now>>

\* an error response: the interceptor's catchError, then retry, then
\* catchError and the subscriber
DashboardResponseError(i, status, body) ==
  /\ i \in 1..Len(fetches)
  /\ fetches[i].state = "inflight"
  /\ status = 401 => Len(routerUrl) < MaxUrlDepth
  /\ LET h == handleAuthError(HttpErrorResponse(status, body), routerUrl)
     IN  /\ InterceptorStorage(h)
         /\ RetryOrFail(i, h.thrown, h.navigate, "response", status)
  /\ UNCHANGED <<signalVars, routerUrl, loginVars, regVars>>
  /\ UNCHANGED <<pwdVars, clsVars, formVars, now>>

\* timeout(5000) fires before any response
DashboardTimeout(i) ==
  /\ i \in 1..Len(fetches)
  /\ fetches[i].state = "inflight"
  /\ RetryOrFail(i, TimeoutError, NoNav, "timeout", 0)
  /\ UNCHANGED <<storageVars, signalVars, routerUrl, loginVars, regVars>>
  /\ UNCHANGED <<pwdVars, clsVars, formVars, now>>

\* the backoff timer fires: retry resubscribes and the request is sent again
RetryTimerFires(i) ==
  /\ i \in 1..Len(fetches)
  /\ fetches[i].state = "backoff"
  /\ fetches' = [fetches EXCEPT ![i].state = "inflight",
                                ![i].attempt = fetches[i].attempt + 1]
  /\ lastEvent' = NoEvent
  /\ UNCHANGED <<dashAlive, retryCount, dashboardData_, loading_, error_,
                 lastRefreshTime_>>
  /\ UNCHANGED <<storageVars, signalVars, routerVars, loginVars, regVars>>
  /\ UNCHANGED <<pwdVars, clsVars, formVars, now>>

\* clearError(), called by DashboardComponent.dismissError()
DismissError ==
  /\ dashAlive
  /\ error_ # Null
  /\ error_' = Null
  /\ lastEvent' = NoEvent
  /\ UNCHANGED <<dashAlive, retryCount, dashboardData_, loading_,
                 lastRefreshTime_, fetches>>
  /\ UNCHANGED <<storageVars, signalVars, routerVars, loginVars, regVars>>
  /\ UNCHANGED <<pwdVars, clsVars, formVars, now>>

\* cacheExpiryTime = 5 * 60 * 1000 milliseconds
cacheExpiryTime == 5 * 60 * 1000

\* isCacheValid(): a refresh time is held and is less than 5 minutes old
isCacheValid ==
  /\ lastRefreshTime_ # Null
  /\ now - lastRefreshTime_.date < cacheExpiryTime

\* overlapping fetchDashboard pipelines when the service is driven directly
MaxOverlap == 2

\* the clock stops here
MaxClock == 600000

\* the clock advances by just under, or exactly, the cache lifetime
ClockSteps == {cacheExpiryTime - 1, cacheExpiryTime}

\* a refreshDashboardIfNeeded that looks only at whether a time is held
RefreshDashboardIfNeededNoAge ==
  /\ IF lastRefreshTime_ = Null
     THEN /\ Len(fetches) < MaxOverlap
          /\ fetchDashboard("refresh")
          /\ lastEvent' = [kind |-> "RefreshFetched"]
     ELSE /\ UNCHANGED <<dashboardData_, loading_, error_, lastRefreshTime_,
                         fetches>>
          /\ lastEvent' = [kind |-> "RefreshSkipped"]
  /\ UNCHANGED <<dashAlive, retryCount>>
  /\ UNCHANGED <<storageVars, signalVars, routerVars, loginVars, regVars>>
  /\ UNCHANGED <<pwdVars, clsVars, formVars, now>>

\* refreshDashboardIfNeeded(): fetch unless the cache is valid; the
\* subscriber only logs an error
RefreshDashboardIfNeeded ==
  /\ IF ~isCacheValid
     THEN /\ Len(fetches) < MaxOverlap
          /\ fetchDashboard("refresh")
          /\ lastEvent' = [kind |-> "RefreshFetched"]
     ELSE /\ UNCHANGED <<dashboardData_, loading_, error_, lastRefreshTime_,
                         fetches>>
          /\ lastEvent' = [kind |-> "RefreshSkipped"]
  /\ UNCHANGED <<dashAlive, retryCount>>
  /\ UNCHANGED <<storageVars, signalVars, routerVars, loginVars, regVars>>
  /\ UNCHANGED <<pwdVars, clsVars, formVars, now>>

\* fetchDashboard() called from outside the component: loading$ and error$
\* are reset at the call, the request is sent only when the caller
\* subscribes to the observable returned
FetchDashboardCalled(subscribed) ==
  /\ IF subscribed
     THEN /\ Len(fetches) < MaxOverlap
          /\ fetchDashboard("refresh")
     ELSE /\ loading_' = TRUE
          /\ error_' = Null
          /\ UNCHANGED <<dashboardData_, lastRefreshTime_, fetches>>
  /\ lastEvent' = NoEvent
  /\ UNCHANGED <<dashAlive, retryCount>>
  /\ UNCHANGED <<storageVars, signalVars, routerVars, loginVars, regVars>>
  /\ UNCHANGED <<pwdVars, clsVars, formVars, now>>

\* invalidateCache()
InvalidateCache ==
  /\ lastRefreshTime_' = Null
  /\ lastEvent' = NoEvent
  /\ UNCHANGED <<dashAlive, retryCount, dashboardData_, loading_, error_,
                 fetches>>
  /\ UNCHANGED <<storageVars, signalVars, routerVars, loginVars, regVars>>
  /\ UNCHANGED <<pwdVars, clsVars, formVars, now>>

\* clearError()
ClearError ==
  /\ error_' = Null
  /\ lastEvent' = NoEvent
  /\ UNCHANGED <<dashAlive, retryCount, dashboardData_, loading_,
                 lastRefreshTime_, fetches>>
  /\ UNCHANGED <<storageVars, signalVars, routerVars, loginVars, regVars>>
  /\ UNCHANGED <<pwdVars, clsVars, formVars, now>>

\* time passes
Tick(d) ==
  /\ now + d <= MaxClock
  /\ now' = now + d
  /\ lastEvent' = NoEvent
  /\ UNCHANGED <<storageVars, signalVars, routerVars, loginVars, regVars,
                 dashVars>>
  /\ UNCHANGED <<pwdVars, clsVars, formVars>>

(***************************************************************************)
(* DashboardComponent                                                      *)
(***************************************************************************)
\* DashboardLoadingState
DashboardLoadingState == {"idle", "loading", "success", "error"}

\* loadingState$: what loading$.pipe(map(...)) delivers for the value
\* loading$ holds
loadingState_ == IF loading_ THEN "loading" ELSE "success"

\* a retry() that compares with <= instead of <
DashboardRetryOneMore ==
  /\ dashAlive
  /\ IF retryCount <= maxRetries
     THEN /\ Len(fetches) < MaxFetches
          /\ retryCount' = retryCount + 1
          /\ fetchDashboard("loadDashboard")
     ELSE UNCHANGED <<retryCount, dashboardData_, loading_, error_,
                      lastRefreshTime_, fetches>>
  /\ lastEvent' = NoEvent
  /\ UNCHANGED dashAlive
  /\ UNCHANGED <<storageVars, signalVars, routerVars, loginVars, regVars>>
  /\ UNCHANGED <<pwdVars, clsVars, formVars, now>>

\* retry(): a new load while retryCount < maxRetries, else nothing
DashboardRetry ==
  /\ dashAlive
  /\ IF retryCount < maxRetries
     THEN /\ Len(fetches) < MaxFetches
          /\ retryCount' = retryCount + 1
          /\ fetchDashboard("loadDashboard")
     ELSE UNCHANGED <<retryCount, dashboardData_, loading_, error_,
                      lastRefreshTime_, fetches>>
  /\ lastEvent' = NoEvent
  /\ UNCHANGED dashAlive
  /\ UNCHANGED <<storageVars, signalVars, routerVars, loginVars, regVars>>
  /\ UNCHANGED <<pwdVars, clsVars, formVars, now>>

\* ngOnDestroy: the fetch subscriptions are not cancelled, they only lose
\* their component
DashboardDestroyed ==
  /\ dashAlive' = FALSE
  /\ retryCount' = 0
  /\ fetches' = [k \in 1..Len(fetches) |->
                   [fetches[k] EXCEPT !.ownerLive = FALSE]]
  /\ UNCHANGED <<dashboardData_, loading_, error_, lastRefreshTime_>>

(***************************************************************************)
(* AuthService.logout                                                      *)
(***************************************************************************)
\* a logout that forgets the signals
LogoutStorageOnly ==
  /\ localStorage' = [k \in StorageKeys |-> NullStr]
  /\ lastEvent' = NoEvent
  /\ UNCHANGED <<sessionStorage, signalVars, routerVars, loginVars, regVars,
                 dashVars>>
  /\ UNCHANGED <<pwdVars, clsVars, formVars, now>>

\* logout(): the four keys leave localStorage and the four signals are null
Logout ==
  /\ localStorage' = [k \in StorageKeys |-> NullStr]
  /\ accessTokenSignal' = NullStr
  /\ refreshTokenSignal' = NullStr
  /\ userIdSignal' = NullStr
  /\ userEmailSignal' = NullStr
  /\ lastEvent' = NoEvent
  /\ UNCHANGED <<sessionStorage, routerVars, loginVars, regVars, dashVars>>
  /\ UNCHANGED <<pwdVars, clsVars, formVars, now>>

(***************************************************************************)
(* Router                                                                  *)
(***************************************************************************)
\* the routed component that is replaced is destroyed
LeaveLogin == IF loginAlive THEN LoginDestroyed ELSE UNCHANGED loginVars

LeaveRegistration ==
  IF regAlive THEN RegistrationDestroyed ELSE UNCHANGED regVars

LeaveDashboard ==
  IF dashAlive THEN DashboardDestroyed ELSE UNCHANGED dashVars

\* /dashboard activates: the component is built and ngOnInit loads
ActivateDashboard(target) ==
  /\ routerUrl' = target
  /\ pendingNav' = NoNav
  /\ navAdmitted' = FALSE
  /\ IF dashAlive
     THEN UNCHANGED dashVars
     ELSE /\ Len(fetches) < MaxFetches
          /\ dashAlive' = TRUE
          /\ retryCount' = 0
          /\ fetchDashboard("loadDashboard")
  /\ LeaveLogin
  /\ LeaveRegistration

\* a LoginComponent.ngOnInit that reads returnUrl before the redirect
LoginNgOnInitReadsFirst(target) ==
  /\ pendingNav' = IF isAuthenticated THEN <<"/dashboard">> ELSE NoNav
  /\ loginReturnUrl' =
       IF Len(target) > 1 THEN Tail(target) ELSE <<"/dashboard">>

\* LoginComponent.ngOnInit(); target is the URL that activated the route
LoginNgOnInit(target) ==
  /\ pendingNav' = IF isAuthenticated THEN <<"/dashboard">> ELSE NoNav
  /\ loginReturnUrl' =
       IF ~isAuthenticated /\ Len(target) > 1
       THEN Tail(target)
       ELSE <<"/dashboard">>

\* /login activates: a new LoginComponent runs ngOnInit, one already on
\* screen is reused
ActivateLogin(target) ==
  /\ routerUrl' = target
  /\ navAdmitted' = FALSE
  /\ IF loginAlive
     THEN /\ pendingNav' = NoNav
          /\ UNCHANGED loginVars
     ELSE /\ loginAlive' = TRUE
          /\ LoginNgOnInit(target)
          /\ UNCHANGED <<loginIsLoading, loginError, loginFormValue,
                         loginRequests>>
  /\ LeaveRegistration
  /\ LeaveDashboard

\* RegistrationComponent.ngOnInit()
RegistrationNgOnInit ==
  pendingNav' = IF isAuthenticated THEN <<"/dashboard">> ELSE NoNav

\* /register activates: a new RegistrationComponent runs ngOnInit, one
\* already on screen is reused
ActivateRegistration(target) ==
  /\ routerUrl' = target
  /\ navAdmitted' = FALSE
  /\ IF regAlive
     THEN /\ pendingNav' = NoNav
          /\ UNCHANGED regVars
     ELSE /\ regAlive' = TRUE
          /\ RegistrationNgOnInit
          /\ UNCHANGED <<regIsLoading, regError, regIsSuccess,
                         regRegisteredEmail, regUser, regRequests>>
  /\ LeaveLogin
  /\ LeaveDashboard

\* the routes of the application
Paths == {"/login", "/register", "/dashboard"}

\* the routes table applied to a URL: '' and '**' redirect to /login
RoutesRedirect(url) == IF url[1] \in Paths THEN url ELSE <<"/login">>

\* the router starts on the requested navigation: a navigation to the
\* current URL is ignored, redirects are applied and /dashboard runs
\* authGuard; an admitted navigation then waits for loadComponent
RouterRunsGuards ==
  /\ pendingNav # NoNav
  /\ ~navAdmitted
  /\ LET target == RoutesRedirect(pendingNav)
     IN  IF pendingNav = routerUrl
         THEN /\ pendingNav' = NoNav
              /\ navAdmitted' = FALSE
         ELSE IF target[1] = "/dashboard" /\ authGuard(target) # NoNav
         THEN /\ pendingNav' = authGuard(target)
              /\ navAdmitted' = FALSE
         ELSE /\ pendingNav' = target
              /\ navAdmitted' = TRUE
  /\ lastEvent' = NoEvent
  /\ UNCHANGED <<routerUrl, loginVars, regVars, dashVars>>
  /\ UNCHANGED <<storageVars, signalVars>>
  /\ UNCHANGED <<pwdVars, clsVars, formVars, now>>

\* loadComponent resolved: the admitted navigation activates its route
RouterActivates ==
  /\ pendingNav # NoNav
  /\ navAdmitted
  /\ IF pendingNav[1] = "/dashboard"
     THEN ActivateDashboard(pendingNav)
     ELSE IF pendingNav[1] = "/register"
     THEN ActivateRegistration(pendingNav)
     ELSE ActivateLogin(pendingNav)
  /\ lastEvent' = NoEvent
  /\ UNCHANGED <<storageVars, signalVars>>
  /\ UNCHANGED <<pwdVars, clsVars, formVars, now>>

\* the user asks for one of the views: a link, the browser history,
\* RegistrationComponent.navigateToLogin or navigateToDashboard
UserNavigates(path) ==
  /\ routerNavigate(<<path>>)
  /\ lastEvent' = NoEvent
  /\ UNCHANGED <<routerUrl, storageVars, signalVars, loginVars, regVars,
                 dashVars>>
  /\ UNCHANGED <<pwdVars, clsVars, formVars, now>>

(***************************************************************************)
(* DashboardComponent: the navigations it asks for                         *)
(***************************************************************************)
HexChars ==
  {"0", "1", "2", "3", "4", "5", "6", "7", "8", "9",
   "a", "b", "c", "d", "e", "f", "A", "B", "C", "D", "E", "F"}

\* positions of the hyphens in 8-4-4-4-12
UuidHyphens == {9, 14, 19, 24}

\* isValidUUID(uuid): /^[0-9a-f]{8}-[0-9a-f]{4}-[0-9a-f]{4}-[0-9a-f]{4}-
\* [0-9a-f]{12}$/i
isValidUUID(uuid) ==
  /\ Len(uuid) = 36
  /\ \A k \in 1..36 :
       IF k \in UuidHyphens THEN uuid[k] = "-" ELSE uuid[k] \in HexChars

\* the identifiers handed to onCategoryClick and onReportClick
UuidSamples ==
  {<<"1", "2", "3", "e", "4", "5", "6", "7", "-", "e", "8", "9", "b", "-", "1", "2", "d", "3", "-", "a", "4", "5", "6", "-", "4", "2", "6", "6", "1", "4", "1", "7", "4", "0", "0", "0">>,
   <<"1", "2", "3", "E", "4", "5", "6", "7", "-", "E", "8", "9", "B", "-", "1", "2", "d", "3", "-", "A", "4", "5", "6", "-", "4", "2", "6", "6", "1", "4", "1", "7", "4", "a", "b", "c">>,
   <<"1", "2", "3", "e", "4", "5", "6", "7", "-", "e", "8", "9", "b", "-", "1", "2", "d", "3", "-", "a", "4", "5", "6", "-", "4", "2", "6", "6", "1", "4", "1", "7", "4", "0", "0", "g">>,
   <<"1", "2", "3", "e", "4", "5", "6", "7", "-", "e", "8", "9", "b", "-", "1", "2", "d", "3", "-", "a", "4", "5", "6">>,
   <<>>}

\* the part of the three navigation methods that is the same
DashboardAsksFor(url) ==
  /\ dashAlive
  /\ routerNavigate(url)
  /\ lastEvent' = NoEvent
  /\ UNCHANGED <<routerUrl, storageVars, signalVars, loginVars, regVars,
                 dashVars>>
  /\ UNCHANGED <<pwdVars, clsVars, formVars, now>>

\* onCategoryClick(categoryId)
onCategoryClick(categoryId) ==
  DashboardAsksFor(IF isValidUUID(categoryId)
                   THEN <<"/categories/:id/notes">>
                   ELSE NoNav)

\* onReportClick(reportId)
onReportClick(reportId) ==
  DashboardAsksFor(IF isValidUUID(reportId) THEN <<"/reports/:id">> ELSE NoNav)

\* onGenerateReportClick()
onGenerateReportClick == DashboardAsksFor(<<"/reports/generate">>)

(***************************************************************************)
(* The application                                                         *)
(***************************************************************************)
\* a session stored by an earlier visit
StoredSession ==
  [access_token |-> "access-1", refresh_token |-> "refresh-1",
   user_id |-> "user-1", user_email |-> "user@example.com"]

\* bootstrap: the signals are read from localStorage and the router is
\* asked for the URL the browser opened
Init ==
  /\ PwdStart
  /\ ClsIdle
  /\ FormStart
  /\ localStorage \in {EmptyStorage, StoredSession}
  /\ sessionStorage = EmptyStorage
  /\ accessTokenSignal = localStorage["access_token"]
  /\ refreshTokenSignal = localStorage["refresh_token"]
  /\ userIdSignal = localStorage["user_id"]
  /\ userEmailSignal = localStorage["user_email"]
  /\ routerUrl = <<"/">>
  /\ pendingNav \in {<<p>> : p \in Paths}
  /\ navAdmitted = FALSE
  /\ loginAlive = FALSE
  /\ loginIsLoading = FALSE
  /\ loginError = Null
  /\ loginReturnUrl = <<"/dashboard">>
  /\ loginFormValue = [email |-> "", password |-> ""]
  /\ loginRequests = <<>>
  /\ regAlive = FALSE
  /\ regIsLoading = FALSE
  /\ regError = Null
  /\ regIsSuccess = FALSE
  /\ regRegisteredEmail = NullStr
  /\ regUser = Null
  /\ regRequests = <<>>
  /\ dashAlive = FALSE
  /\ retryCount = 0
  /\ dashboardData_ = Null
  /\ loading_ = FALSE
  /\ error_ = Null
  /\ lastRefreshTime_ = Null
  /\ fetches = <<>>
  /\ now = 0
  /\ lastEvent = NoEvent

Next ==
  \/ RouterRunsGuards
  \/ RouterActivates
  \/ \E path \in Paths : UserNavigates(path)
  \/ \E id \in UuidSamples : onCategoryClick(id)
  \/ \E id \in UuidSamples : onReportClick(id)
  \/ onGenerateReportClick
  \/ Logout
  \/ \E request \in SignInRequests : LoginSubmit(request)
  \/ \E i \in 1..MaxInFlight, confirmed \in BOOLEAN : SignInSuccess(i, confirmed)
  \/ \E i \in 1..MaxInFlight, status \in AppStatuses, body \in AppBodies :
       SignInError(i, status, body)
  \/ \E i \in 1..MaxInFlight : SignInTimeout(i)
  \/ LoginErrorDismiss
  \/ \E request \in SignUpRequests : RegistrationSubmit(request)
  \/ \E i \in 1..MaxInFlight : SignUpSuccess(i)
  \/ \E i \in 1..MaxInFlight, status \in SignUpStatuses, body \in AppBodies :
       SignUpError(i, status, body)
  \/ \E i \in 1..MaxInFlight : SignUpTimeout(i)
  \/ RegistrationErrorDismiss
  \/ \E i \in 1..MaxFetches : DashboardResponseOk(i)
  \/ \E i \in 1..MaxFetches, status \in AppStatuses, body \in AppBodies :
       DashboardResponseError(i, status, body)
  \/ \E i \in 1..MaxFetches : DashboardTimeout(i)
  \/ \E i \in 1..MaxFetches : RetryTimerFires(i)
  \/ DashboardRetry
  \/ DismissError

Spec == Init /\ [][Next]_vars

(***************************************************************************)
(* RegistrationFormComponent                                               *)
(***************************************************************************)
\* longest email typed
MaxEmailLen == 4

\* one alphanumeric character, the at sign and the dot
AtomChars == {"a"}

EmailChars == AtomChars \cup {"@", "."}

\* the passwords typed: empty, two that differ only in case, a longer one
PasswordValues == {<<>>, <<"a">>, <<"A">>, <<"a", "b">>}

\* Validators.required: the error is present iff the value is empty
requiredError(value) == Len(value) = 0

\* Validators.minLength(n): no error on an empty value
minLengthError(value, n) == Len(value) > 0 /\ Len(value) < n

\* atoms of alphanumerics separated by single dots
DotAtoms(part) ==
  /\ Len(part) > 0
  /\ \A k \in 1..Len(part) : part[k] \in AtomChars \cup {"."}
  /\ part[1] # "."
  /\ part[Len(part)] # "."
  /\ \A k \in 1..(Len(part) - 1) : ~(part[k] = "." /\ part[k + 1] = ".")

\* the pattern of Validators.email: local part, one at sign, domain
EmailPattern(value) ==
  LET ats == {k \in 1..Len(value) : value[k] = "@"}
  IN  /\ Cardinality(ats) = 1
      /\ LET at == CHOOSE k \in ats : TRUE
         IN  /\ DotAtoms(SubSeq(value, 1, at - 1))
             /\ DotAtoms(SubSeq(value, at + 1, Len(value)))

\* Validators.email: no error on an empty value
emailError(value) == Len(value) > 0 /\ ~EmailPattern(value)

\* a group validator that never reports a mismatch
passwordMatchValidatorOff == FALSE

\* passwordMatchValidator: the passwordMismatch error is present
passwordMatchValidator == formPassword # formConfirmPassword

\* formGroup.invalid: some control or the group has an error
formGroupInvalid ==
  \/ requiredError(formEmail)
  \/ emailError(formEmail)
  \/ requiredError(formPassword)
  \/ minLengthError(formPassword, 1)
  \/ requiredError(formConfirmPassword)
  \/ passwordMatchValidator

\* the user types one character at the end of the email control
FormEmailInput(c) ==
  /\ Len(formEmail) < MaxEmailLen
  /\ formEmail' = Append(formEmail, c)
  /\ formEmitted' = Null
  /\ UNCHANGED <<formPassword, formConfirmPassword, emailTouched,
                 passwordTouched, confirmPasswordTouched, formIsLoading>>
  /\ UNCHANGED <<pwdVars, clsVars, hostVars>>

\* the user deletes the last character of the email control
FormEmailBackspace ==
  /\ Len(formEmail) > 0
  /\ formEmail' = SubSeq(formEmail, 1, Len(formEmail) - 1)
  /\ formEmitted' = Null
  /\ UNCHANGED <<formPassword, formConfirmPassword, emailTouched,
                 passwordTouched, confirmPasswordTouched, formIsLoading>>
  /\ UNCHANGED <<pwdVars, clsVars, hostVars>>

\* the user edits the password control
FormPasswordInput(value) ==
  /\ formPassword' = value
  /\ formEmitted' = Null
  /\ UNCHANGED <<formEmail, formConfirmPassword, emailTouched,
                 passwordTouched, confirmPasswordTouched, formIsLoading>>
  /\ UNCHANGED <<pwdVars, clsVars, hostVars>>

\* the user edits the confirmPassword control
FormConfirmPasswordInput(value) ==
  /\ formConfirmPassword' = value
  /\ formEmitted' = Null
  /\ UNCHANGED <<formEmail, formPassword, emailTouched, passwordTouched,
                 confirmPasswordTouched, formIsLoading>>
  /\ UNCHANGED <<pwdVars, clsVars, hostVars>>

onEmailBlur ==
  /\ emailTouched' = TRUE
  /\ formEmitted' = Null
  /\ UNCHANGED <<formEmail, formPassword, formConfirmPassword,
                 passwordTouched, confirmPasswordTouched, formIsLoading>>
  /\ UNCHANGED <<pwdVars, clsVars, hostVars>>

onPasswordBlur ==
  /\ passwordTouched' = TRUE
  /\ formEmitted' = Null
  /\ UNCHANGED <<formEmail, formPassword, formConfirmPassword,
                 emailTouched, confirmPasswordTouched, formIsLoading>>
  /\ UNCHANGED <<pwdVars, clsVars, hostVars>>

onConfirmPasswordBlur ==
  /\ confirmPasswordTouched' = TRUE
  /\ formEmitted' = Null
  /\ UNCHANGED <<formEmail, formPassword, formConfirmPassword,
                 emailTouched, passwordTouched, formIsLoading>>
  /\ UNCHANGED <<pwdVars, clsVars, hostVars>>

\* the parent binds a new value to the isLoading input
FormIsLoadingInput(value) ==
  /\ formIsLoading' = value
  /\ formEmitted' = Null
  /\ UNCHANGED <<formEmail, formPassword, formConfirmPassword,
                 emailTouched, passwordTouched, confirmPasswordTouched>>
  /\ UNCHANGED <<pwdVars, clsVars, hostVars>>

\* submit()
submit ==
  /\ IF formGroupInvalid
     THEN /\ emailTouched' = TRUE
          /\ passwordTouched' = TRUE
          /\ confirmPasswordTouched' = TRUE
          /\ formEmitted' = Null
     ELSE IF formIsLoading
     THEN /\ formEmitted' = Null
          /\ UNCHANGED <<emailTouched, passwordTouched,
                         confirmPasswordTouched>>
     ELSE /\ formEmitted' = [email |-> formEmail, password |-> formPassword]
          /\ UNCHANGED <<emailTouched, passwordTouched,
                         confirmPasswordTouched>>
  /\ UNCHANGED <<formEmail, formPassword, formConfirmPassword, formIsLoading>>
  /\ UNCHANGED <<pwdVars, clsVars, hostVars>>

InitForm ==
  /\ PwdStart
  /\ ClsIdle
  /\ AppIdle

NextForm ==
  \/ \E c \in EmailChars : FormEmailInput(c)
  \/ FormEmailBackspace
  \/ \E value \in PasswordValues : FormPasswordInput(value)
  \/ \E value \in PasswordValues : FormConfirmPasswordInput(value)
  \/ onEmailBlur
  \/ onPasswordBlur
  \/ onConfirmPasswordBlur
  \/ \E value \in BOOLEAN : FormIsLoadingInput(value)
  \/ submit

SpecForm == InitForm /\ [][NextForm]_vars

(***************************************************************************)
(* DashboardService driven through its public methods, no component        *)
(***************************************************************************)
InitService ==
  /\ PwdStart
  /\ ClsIdle
  /\ AppIdle

NextService ==
  \/ RefreshDashboardIfNeeded
  \/ \E subscribed \in BOOLEAN : FetchDashboardCalled(subscribed)
  \/ InvalidateCache
  \/ ClearError
  \/ \E d \in ClockSteps : Tick(d)
  \/ \E i \in 1..MaxOverlap : DashboardResponseOk(i)
  \/ \E i \in 1..MaxOverlap, status \in AppStatuses, body \in AppBodies :
       DashboardResponseError(i, status, body)
  \/ \E i \in 1..MaxOverlap : DashboardTimeout(i)
  \/ \E i \in 1..MaxOverlap : RetryTimerFires(i)

SpecService == InitService /\ [][NextService]_vars

(***************************************************************************)
(* The application left alone: after the browser opened a URL the user     *)
(* does nothing; only the router, the server and the timers act            *)
(***************************************************************************)
\* some outcome of an in-flight dashboard request: a response or the timeout
DashboardRequestEnds ==
  \/ \E i \in 1..MaxFetches : DashboardResponseOk(i)
  \/ \E i \in 1..MaxFetches, status \in Statuses, body \in Bodies :
       DashboardResponseError(i, status, body)
  \/ \E i \in 1..MaxFetches : DashboardTimeout(i)

NextUnattended ==
  \/ RouterRunsGuards
  \/ RouterActivates
  \/ DashboardRequestEnds
  \/ \E i \in 1..MaxFetches : RetryTimerFires(i)

\* the router processes every navigation, every request ends (timeout(5000)
\* at the latest) and every backoff timer fires
SpecUnattended ==
  /\ Init
  /\ [][NextUnattended]_vars
  /\ WF_vars(RouterRunsGuards)
  /\ WF_vars(RouterActivates)
  /\ WF_vars(DashboardRequestEnds)
  /\ WF_vars(\E i \in 1..MaxFetches : RetryTimerFires(i))


(***************************************************************************)
(* The two authentication views with their user and the server; the        *)
(* dashboard requests are answered 200 in time                             *)
(***************************************************************************)
\* some outcome of an in-flight sign-in or sign-up request: a response or
\* the timeout
AuthRequestEnds ==
  \/ \E i \in 1..MaxInFlight, confirmed \in BOOLEAN : SignInSuccess(i, confirmed)
  \/ \E i \in 1..MaxInFlight, status \in AppStatuses, body \in AppBodies :
       SignInError(i, status, body)
  \/ \E i \in 1..MaxInFlight : SignInTimeout(i)
  \/ \E i \in 1..MaxInFlight : SignUpSuccess(i)
  \/ \E i \in 1..MaxInFlight, status \in SignUpStatuses, body \in AppBodies :
       SignUpError(i, status, body)
  \/ \E i \in 1..MaxInFlight : SignUpTimeout(i)

NextSubmissions ==
  \/ RouterRunsGuards
  \/ RouterActivates
  \/ \E path \in Paths : UserNavigates(path)
  \/ Logout
  \/ \E request \in SignInRequests : LoginSubmit(request)
  \/ \E request \in SignUpRequests : RegistrationSubmit(request)
  \/ AuthRequestEnds
  \/ LoginErrorDismiss
  \/ RegistrationErrorDismiss
  \/ \E i \in 1..MaxFetches : DashboardResponseOk(i)

\* every sign-in and sign-up request ends: timeout(10000) at the latest
SpecSubmissions ==
  /\ Init
  /\ [][NextSubmissions]_vars
  /\ WF_vars(AuthRequestEnds)

(***************************************************************************)
(* The dashboard with its user and the server; nobody signs in or up       *)
(***************************************************************************)
NextDashboard ==
  \/ RouterRunsGuards
  \/ RouterActivates
  \/ \E path \in Paths : UserNavigates(path)
  \/ \E id \in UuidSamples : onCategoryClick(id)
  \/ \E id \in UuidSamples : onReportClick(id)
  \/ onGenerateReportClick
  \/ \E i \in 1..MaxFetches : DashboardResponseOk(i)
  \/ \E i \in 1..MaxFetches, status \in AppStatuses, body \in AppBodies :
       DashboardResponseError(i, status, body)
  \/ \E i \in 1..MaxFetches : DashboardTimeout(i)
  \/ \E i \in 1..MaxFetches : RetryTimerFires(i)
  \/ DashboardRetry
  \/ DismissError

SpecDashboard == Init /\ [][NextDashboard]_vars

(***************************************************************************)
(* Properties of the password-strength analysis                            *)
(***************************************************************************)
\* the results the model holds: the direct call and the rendered one
HeldResults ==
  (IF analysis # Null THEN {analysis.result} ELSE {})
    \cup (IF strengthResult # Null THEN {strengthResult} ELSE {})

TrueCriteria(r) == {k \in 1..5 : r.criteria[CriteriaNames[k]]}

\* C1: the score of every analysis result is the number of true criteria,
\* lies in 0..5, and is 5 exactly when all five criteria are met.
C1_ScoreCountsCriteria ==
  \A r \in HeldResults :
    /\ r.score = Cardinality(TrueCriteria(r))
    /\ r.score \in 0..5
    /\ (r.score = 5) <=> (\A k \in 1..5 : r.criteria[CriteriaNames[k]])

C1_Witness ==
  /\ analysis # Null
  /\ analysis.result.score = 5
  /\ analysis.result.criteria.hasSpecialChars
  /\ strengthResult # Null

LevelRank(level) ==
  CASE level = "weak" -> 0
    [] level = "fair" -> 1
    [] level = "good" -> 2
    [] level = "strong" -> 3

\* one password for each score 0..5
LevelSamples ==
  { <<>>, <<"a">>, <<"a", "A">>, <<"a", "A", "1">>, <<"a", "A", "1", "!">>,
    <<"a", "A", "1", "!", " ", " ">> }

\* C2: the level is the table's function of the score (0,1 weak; 2 fair;
\* 3 good; 4,5 strong), and a lower score never has a stronger level.
C2_LevelFromScore ==
  \A r \in HeldResults :
    /\ \/ r.score \in {0, 1} /\ r.level = "weak"
       \/ r.score = 2 /\ r.level = "fair"
       \/ r.score = 3 /\ r.level = "good"
       \/ r.score \in {4, 5} /\ r.level = "strong"
    /\ \A p2 \in LevelSamples :
         LET r2 == analyze(p2)
         IN  /\ r.score < r2.score => LevelRank(r.level) <= LevelRank(r2.level)
             /\ r2.score < r.score => LevelRank(r2.level) <= LevelRank(r.level)
             /\ r.score = r2.score => r.level = r2.level

C2_Witness ==
  /\ analysis # Null
  /\ analysis.result.score = 3
  /\ analysis.result.level = "good"

\* the suggestion of each criterion, in the order of CriteriaNames
FeedbackText ==
  <<"At least 6 characters", "Include uppercase letter",
    "Include lowercase letter", "Include a number",
    "Include special character">>

\* position of a suggestion in the fixed order (0 when it is none of them)
FeedbackIndex(text) ==
  IF \E k \in 1..5 : FeedbackText[k] = text
  THEN CHOOSE k \in 1..5 : FeedbackText[k] = text
  ELSE 0

\* C3: feedback holds exactly one entry per false criterion and none for a
\* true one, in the fixed order; its length is 5 - score and it is empty
\* iff all five criteria are met.
C3_FeedbackComplete ==
  \A r \in HeldResults :
    /\ \A k \in 1..5 :
         Cardinality({i \in 1..Len(r.feedback) : r.feedback[i] = FeedbackText[k]})
           = (IF r.criteria[CriteriaNames[k]] THEN 0 ELSE 1)
    /\ \A i \in 1..Len(r.feedback) : FeedbackIndex(r.feedback[i]) # 0
    /\ \A i, j \in 1..Len(r.feedback) :
         i < j => FeedbackIndex(r.feedback[i]) < FeedbackIndex(r.feedback[j])
    /\ Len(r.feedback) = 5 - r.score
    /\ (r.feedback = <<>>) <=> (\A k \in 1..5 : r.criteria[CriteriaNames[k]])

C3_Witness ==
  /\ analysis # Null
  /\ analysis.result.feedback = <<"At least 6 characters", "Include a number">>

\* the punctuation list of the specification's data model (no colon)
SpecPunctuationList ==
  {"!","@","#","$","%","^","&","*","(",")","_","+","-","=",
   "[","]","{","}",";","'","\"","\\","|",",",".","<",">","/","?"}

\* C4 as stated: hasSpecialChars iff the password contains a character of
\* the specification's list.
C4_Original_SpecListOnly ==
  analysis # Null =>
    (analysis.result.criteria.hasSpecialChars
       <=> \E i \in 1..Len(analysis.input) :
             analysis.input[i] \in SpecPunctuationList)

\* C4 amended: hasSpecialChars iff the password contains a character of the
\* specification's list or a colon; a password without any of these has
\* hasSpecialChars = FALSE.
C4_SpecialCharsListPlusColon ==
  analysis # Null =>
    (analysis.result.criteria.hasSpecialChars
       <=> \E i \in 1..Len(analysis.input) :
             analysis.input[i] \in SpecPunctuationList \cup {":"})

C4_Witness ==
  /\ analysis # Null
  /\ analysis.input = <<":">>
  /\ analysis.result.criteria.hasSpecialChars

PasswordAa1Bang == <<"A", "a", "1", "!">>

\* C5 as stated: analyze("Aa1!") has score 3 and level good.
C5_Original_Score3Good ==
  (analysis # Null /\ analysis.input = PasswordAa1Bang) =>
    /\ analysis.result.criteria.hasSpecialChars
    /\ ~analysis.result.criteria.hasMinLength
    /\ analysis.result.score = 3
    /\ analysis.result.level = "good"

\* C5 amended: analyze("Aa1!") has hasSpecialChars true, hasMinLength false,
\* uppercase, lowercase and numbers true, hence score 4 and level strong.
C5_Aa1BangScore4Strong ==
  (analysis # Null /\ analysis.input = PasswordAa1Bang) =>
    /\ analysis.result.criteria.hasSpecialChars
    /\ ~analysis.result.criteria.hasMinLength
    /\ analysis.result.score = 4
    /\ analysis.result.level = "strong"
    /\ analysis.result.feedback = <<"At least 6 characters">>

C5_Witness ==
  /\ analysis # Null
  /\ analysis.input = PasswordAa1Bang
  /\ strengthResult # Null
  /\ strengthResult.level = "strong"

\* C6 as stated: every change of the password field, a change to the empty
\* string included, renders the result of analyze on the new value.
C6_Original_AnalyzeOnEveryChange ==
  [][password' # password => strengthResult' = analyze(password')]_vars

\* C6 amended: analyze("") has all criteria false, score 0, level weak and
\* five feedback entries; the indicator renders the analysis of every
\* non-empty password and renders nothing (null, analyze is not called)
\* while the password is empty.
C6_EmptyPasswordNotRendered ==
  /\ (analysis # Null /\ analysis.input = <<>>) =>
       /\ \A k \in 1..5 : ~analysis.result.criteria[CriteriaNames[k]]
       /\ analysis.result.score = 0
       /\ analysis.result.level = "weak"
       /\ Len(analysis.result.feedback) = 5
  /\ (password = <<>>) <=> (strengthResult = Null)
  /\ (analysis # Null /\ password # <<>>) => strengthResult = analysis.result

C6_Witness ==
  /\ password = <<>>
  /\ analysis # Null
  /\ analysis.result.score = 0
  /\ strengthResult = Null

(***************************************************************************)
(* Properties of the error classifiers                                     *)
(***************************************************************************)
\* the closed code enumeration of the specification's classification table
ClosedCodes ==
  {"NETWORK_ERROR", "VALIDATION_ERROR", "INVALID_CREDENTIALS",
   "UNVERIFIED_EMAIL", "UNAUTHORIZED", "EMAIL_EXISTS", "WEAK_PASSWORD",
   "RATE_LIMITED", "SERVER_ERROR"}

\* the statuses each classifier has a branch for
LoginRecognises(e) ==
  e.hasStatus /\ (e.status \in {0, 400, 401, 429} \/ e.status >= 500)

RegistrationRecognises(e) ==
  e.hasStatus /\ (e.status \in {0, 400, 409, 422, 429} \/ e.status >= 500)

DashboardRecognises(e) ==
  \/ e.hasStatus /\ (e.status \in {0, 400, 401} \/ e.status >= 500)
  \/ e.name = "TimeoutError"

\* C7: every classifier stays inside the closed enumeration and
\* maps a status it does not recognise to SERVER_ERROR (type server,
\* recoverable true where the state carries them).
C7_Original_FallbackServerError ==
  /\ clsLogin # Null =>
       /\ clsLogin.code \in ClosedCodes
       /\ ~LoginRecognises(clsInput) => clsLogin.code = "SERVER_ERROR"
  /\ clsRegistration # Null =>
       /\ clsRegistration.code \in ClosedCodes
       /\ ~RegistrationRecognises(clsInput) =>
            clsRegistration.code = "SERVER_ERROR"
  /\ clsDashboard # Null =>
       /\ clsDashboard.code \in ClosedCodes
       /\ ~DashboardRecognises(clsInput) =>
            /\ clsDashboard.code = "SERVER_ERROR"
            /\ clsDashboard.type = "server"
            /\ clsDashboard.recoverable

\* the retryAfter seconds the claim reads: the field, 900 when absent
ClaimedRetryAfter(e) ==
  IF "retryAfter" \in DOMAIN ApiDetails(e)
  THEN ApiDetails(e).retryAfter
  ELSE 900

ClaimedMinutes(e) ==
  LET m == CeilDiv(ClaimedRetryAfter(e), 60)
  IN  IF m < 1 THEN 1 ELSE m

\* C8: a 429 is classified RATE_LIMITED and its message shows
\* max(1, ceil(r / 60)) minutes, r being the body's retryAfter and 900 only
\* when the body or the field is absent.
C8_RateLimitMinutes ==
  StatusIs(clsInput, 429) =>
    /\ clsLogin # Null =>
         /\ clsLogin.code = "RATE_LIMITED"
         /\ clsLogin.message =
              "Too many login attempts. Please try again in "
                \o ToString(ClaimedMinutes(clsInput)) \o " minutes."
    /\ clsRegistration # Null =>
         /\ clsRegistration.code = "RATE_LIMITED"
         /\ clsRegistration.message =
              "Too many registration attempts. Please try again in "
                \o ToString(ClaimedMinutes(clsInput)) \o " minutes."

(***************************************************************************)
(* Properties of the sign-in and dashboard flows                           *)
(***************************************************************************)
\* C9: every sign-in that failed with status 401 leaves the error code
\* INVALID_CREDENTIALS and the one message "Invalid email or password",
\* whatever the response body was.
C9_SignIn401InvalidCredentials ==
  (lastEvent.kind = "SignInError" /\ lastEvent.status = 401) =>
    /\ loginError # Null
    /\ loginError.code = "INVALID_CREDENTIALS"
    /\ loginError.message = "Invalid email or password"

\* C10: a 401 response to the dashboard fetch is never retried, ends the
\* fetch with code UNAUTHORIZED, type unauthorized, recoverable false, and
\* DashboardComponent asks the router for /login?returnUrl=/dashboard.
C10_Dashboard401Unauthorized ==
  /\ ~(/\ lastEvent.kind = "FetchRetried"
       /\ lastEvent.cause = "response"
       /\ lastEvent.status = 401)
  /\ (/\ lastEvent.kind = "FetchFailed"
      /\ lastEvent.cause = "response"
      /\ lastEvent.status = 401) =>
       /\ error_ # Null
       /\ error_.code = "UNAUTHORIZED"
       /\ error_.type = "unauthorized"
       /\ ~error_.recoverable
       /\ lastEvent.componentNav = <<"/login", "/dashboard">>
       /\ pendingNav = <<"/login", "/dashboard">>

\* C12: on a successful sign-in response the component ends with
\* isLoading = false; it asks the router for returnUrl when the response's
\* email_confirmed_at is non-null, and otherwise sets UNVERIFIED_EMAIL and asks
\* for no navigation. A failed or timed-out sign-in never sets UNVERIFIED_EMAIL.
C12_SignInSuccessNavigatesIffConfirmed ==
  [][/\ lastEvent'.kind = "SignInSuccess" =>
          /\ ~loginIsLoading'
          /\ IF lastEvent'.confirmed
             THEN /\ pendingNav' = loginReturnUrl
                  /\ loginError' = Null
             ELSE /\ pendingNav' = pendingNav
                  /\ loginError' # Null
                  /\ loginError'.code = "UNVERIFIED_EMAIL"
     /\ lastEvent'.kind \in {"SignInError", "SignInTimeout"} =>
          /\ loginError' # Null
          /\ loginError'.code # "UNVERIFIED_EMAIL"]_vars

C12_Witness ==
  /\ lastEvent = [kind |-> "SignInSuccess", confirmed |-> TRUE]
  /\ loginReturnUrl = <<"/register">>
  /\ pendingNav = <<"/register">>
  /\ ~loginIsLoading

\* C13: when the router runs the guards of a navigation to /dashboard, the
\* navigation is admitted iff isAuthenticated() is true at that moment;
\* otherwise it is replaced by /login?returnUrl=<requested URL>. An admitted
\* navigation activates /dashboard once its component is loaded. No step
\* activates /dashboard or builds a DashboardComponent while
\* isAuthenticated() is false.
C13_AuthGuardAdmitsIffAuthenticated ==
  [][/\ (RouterRunsGuards /\ pendingNav # routerUrl
           /\ pendingNav[1] = "/dashboard") =>
          /\ routerUrl' = routerUrl
          /\ dashAlive' = dashAlive
          /\ IF isAuthenticated
             THEN navAdmitted' /\ pendingNav' = pendingNav
             ELSE ~navAdmitted' /\ pendingNav' = <<"/login">> \o pendingNav
     /\ (RouterActivates /\ pendingNav[1] = "/dashboard") =>
          /\ routerUrl' = pendingNav
          /\ dashAlive'
     /\ (~dashAlive /\ dashAlive') => isAuthenticated
     /\ (routerUrl' # routerUrl /\ routerUrl'[1] = "/dashboard") =>
          isAuthenticated]_vars

\* the last step handled a response with status 401 that came through the
\* interceptor
Handled401 ==
  \/ /\ lastEvent.kind \in {"SignInError", "SignUpError"}
     /\ lastEvent.status = 401
  \/ /\ lastEvent.kind \in {"FetchFailed", "FetchRetried"}
     /\ lastEvent.cause = "response"
     /\ lastEvent.status = 401

\* C14: once a 401 response has passed through the interceptor,
\* access_token and refresh_token are absent from localStorage and
\* sessionStorage, the router has been asked for /login?returnUrl=<current
\* URL>, isAuthenticated() is false and authGuard redirects /dashboard to
\* /login.
C14_Interceptor401ClearsAuth ==
  Handled401 =>
    /\ \A k \in {"access_token", "refresh_token"} :
         localStorage[k] = NullStr /\ sessionStorage[k] = NullStr
    /\ pendingNav = <<"/login">> \o routerUrl
    /\ ~isAuthenticated
    /\ authGuard(<<"/dashboard">>) = <<"/login", "/dashboard">>

\* nothing of a session is left in localStorage or in the signals
LoggedOut ==
  /\ \A k \in StorageKeys : localStorage[k] = NullStr
  /\ accessTokenSignal = NullStr
  /\ refreshTokenSignal = NullStr
  /\ userIdSignal = NullStr
  /\ userEmailSignal = NullStr

\* the four keys and the four signals hold a session
SessionSet ==
  /\ \A k \in StorageKeys : localStorage[k] # NullStr
  /\ accessTokenSignal # NullStr
  /\ refreshTokenSignal # NullStr
  /\ userIdSignal # NullStr
  /\ userEmailSignal # NullStr

\* C15: logout(), from any state, leaves the four keys absent from
\* localStorage, the four signals null, isAuthenticated() false and authGuard
\* redirecting /dashboard to /login; this lasts until the next successful
\* sign-in or sign-up, which sets the four keys and the four signals again.
C15_LogoutClearsSession ==
  [][/\ Logout =>
          /\ LoggedOut'
          /\ ~isAuthenticated'
          /\ authGuard(<<"/dashboard">>)' = <<"/login", "/dashboard">>
     /\ (LoggedOut /\ lastEvent'.kind \notin {"SignInSuccess", "SignUpSuccess"})
          => (LoggedOut' /\ ~isAuthenticated')
     /\ lastEvent'.kind \in {"SignInSuccess", "SignUpSuccess"} =>
          (SessionSet' /\ isAuthenticated')]_vars

C15_Witness ==
  /\ LoggedOut
  /\ dashAlive
  /\ routerUrl = <<"/dashboard">>
  /\ authGuard(<<"/dashboard">>) = <<"/login", "/dashboard">>

\* C16: a LoginComponent or RegistrationComponent initialised while the user
\* is authenticated navigates to /dashboard and does nothing else (returnUrl
\* keeps its default, it is not read from the query); initialised while the
\* user is not authenticated, it does not navigate.
C16_NgOnInitRedirectsWhenAuthenticated ==
  [][/\ (~loginAlive /\ loginAlive') =>
          /\ ~loginIsLoading' /\ loginError' = Null /\ loginRequests' = <<>>
          /\ IF isAuthenticated
             THEN /\ pendingNav' = <<"/dashboard">>
                  /\ loginReturnUrl' = <<"/dashboard">>
             ELSE /\ pendingNav' = NoNav
                  /\ loginReturnUrl' = IF Len(routerUrl') > 1
                                       THEN Tail(routerUrl')
                                       ELSE <<"/dashboard">>
     /\ (~regAlive /\ regAlive') =>
          /\ ~regIsLoading' /\ regError' = Null /\ ~regIsSuccess'
          /\ regRequests' = <<>>
          /\ pendingNav' = IF isAuthenticated THEN <<"/dashboard">>
                                              ELSE NoNav]_vars

C16_Witness ==
  /\ isAuthenticated
  /\ loginAlive
  /\ routerUrl = <<"/login", "/register">>
  /\ pendingNav = <<"/dashboard">>
  /\ loginReturnUrl = <<"/dashboard">>

\* C17: while a sign-in or sign-up request is in flight (isLoading true) a
\* further onSubmit is ignored and leaves the state unchanged, so that each
\* component has at most one authentication request in flight, and has one
\* only while it is loading.
C17_SingleSubmissionInFlight ==
  [][/\ (loginIsLoading /\ \E r \in SignInRequests : LoginSubmit(r)) =>
          UNCHANGED <<loginVars, regVars, dashVars, storageVars,
                      signalVars, routerVars>>
     /\ (regIsLoading /\ \E r \in SignUpRequests : RegistrationSubmit(r)) =>
          UNCHANGED <<loginVars, regVars, dashVars, storageVars,
                      signalVars, routerVars>>
     /\ Len(loginRequests') <= 1
     /\ Len(regRequests') <= 1
     /\ loginRequests' # <<>> => loginIsLoading'
     /\ regRequests' # <<>> => regIsLoading']_vars

C17_Witness ==
  /\ regAlive
  /\ regIsLoading
  /\ Len(regRequests) = 1
  /\ regError = Null
  /\ ~loginAlive
  /\ loginRequests = <<>>

\* C18: when the sign-up request gives no response within 10 seconds the
\* RegistrationComponent stops loading and shows an error whose code is
\* NETWORK_ERROR, the form staying available for another submit.
C18_SignUpTimeoutIsNetworkError ==
  lastEvent.kind = "SignUpTimeout" =>
    /\ ~regIsLoading
    /\ ~regIsSuccess
    /\ regError # Null
    /\ regError.code = "NETWORK_ERROR"

\* the error of the attempt just handled is one the retry policy names
\* retryable on its own account: a timeout or a 5xx response
LastErrorTimeoutOr5xx ==
  \/ lastEvent.cause = "timeout"
  \/ lastEvent.cause = "response" /\ lastEvent.status >= 500

\* C19: a dashboard request that keeps failing with a retryable error is
\* retried at most 3 times, after delays of 1, 2 and 4 seconds, and the error
\* is surfaced (error$ set, loading$ false) only after the third retry failed,
\* that is on the fourth attempt.
C19_ThreeRetriesExponentialBackoff ==
  /\ lastEvent.kind = "FetchRetried" =>
       /\ lastEvent.attempts \in 1..3
       /\ \E i \in 1..Len(fetches) :
            /\ fetches[i].state = "backoff"
            /\ fetches[i].attempt = lastEvent.attempts
            /\ fetches[i].delayMs = Pow2(lastEvent.attempts - 1) * 1000
  /\ (lastEvent.kind = "FetchFailed" /\ LastErrorTimeoutOr5xx) =>
       /\ lastEvent.attempts = 4
       /\ error_ # Null
       /\ ~loading_

\* C20: network errors (status 0), timeouts and 5xx responses are always
\* retried, so such an error is surfaced only by the last attempt the retry
\* count allows; a 4xx response is never retried and is surfaced at once.
C20_RetryDependsOnErrorClass ==
  /\ (/\ lastEvent.kind = "FetchFailed"
      /\ \/ LastErrorTimeoutOr5xx
         \/ lastEvent.cause = "response" /\ lastEvent.status = 0) =>
       lastEvent.attempts = RetryConfigCount + 1
  /\ lastEvent.kind = "FetchRetried" =>
       ~(lastEvent.cause = "response" /\ lastEvent.status \in 400..499)
  /\ (/\ lastEvent.kind = "FetchFailed"
      /\ lastEvent.cause = "response"
      /\ lastEvent.status \in 400..499) =>
       (error_ # Null /\ ~loading_)

\* C26: after a sign-in or sign-up response whose user.email_confirmed_at is
\* null the user is not authenticated: none of its tokens is kept,
\* isAuthenticated() is false and authGuard does not admit /dashboard.
C26_UnconfirmedNotAuthenticated ==
  (\/ lastEvent.kind = "SignInSuccess" /\ ~lastEvent.confirmed
   \/ lastEvent.kind = "SignUpSuccess") =>
    /\ ~isAuthenticated
    /\ localStorage["access_token"] = NullStr
    /\ localStorage["refresh_token"] = NullStr
    /\ authGuard(<<"/dashboard">>) = <<"/login", "/dashboard">>

\* C27: an error response of status s that reaches a component through
\* authInterceptor is classified as the component's classifier classifies
\* status s directly: same code in LoginComponent and RegistrationComponent,
\* same code, type and retry decision in DashboardService.
C27_InterceptorTransparent ==
  /\ lastEvent.kind = "SignInError" =>
       \E b \in AppBodies :
         loginError.code =
           mapApiErrorToLoginError(HttpErrorResponse(lastEvent.status, b)).code
  /\ lastEvent.kind = "SignUpError" =>
       \E b \in AppBodies :
         regError.code =
           mapApiErrorToRegistrationError(
             HttpErrorResponse(lastEvent.status, b)).code
  /\ (lastEvent.kind = "FetchFailed" /\ lastEvent.cause = "response") =>
       \E b \in AppBodies :
         LET direct == HttpErrorResponse(lastEvent.status, b)
         IN  /\ error_.code = handleError(direct).code
             /\ error_.type = handleError(direct).type
             /\ isRetryableError(direct) =>
                  lastEvent.attempts = RetryConfigCount + 1
  /\ (lastEvent.kind = "FetchRetried" /\ lastEvent.cause = "response") =>
       isRetryableError(HttpErrorResponse(lastEvent.status, NullBody))

\* C23: after a 429 answer to sign-up, while the RATE_LIMITED error with its
\* retryAfter of r > 0 seconds is the component's error, RegistrationComponent
\* sends no further sign-up request: no step taken from such a state puts a
\* request in flight.
C23_RateLimitedDisablesRetry ==
  [][(/\ regAlive
      /\ regError # Null
      /\ regError.code = "RATE_LIMITED"
      /\ regError.details.retryAfter > 0) =>
       Len(regRequests') <= Len(regRequests)]_vars

\* C25: with no user action, once the interceptor has handled a 401 the
\* navigation settles: the application reaches /login and stays there; it
\* does not go round /login -> /dashboard -> 401 -> /login.
C25_NavigationSettlesAfter401 ==
  Handled401 ~> [](routerUrl[1] = "/login" /\ pendingNav = NoNav)

\* the four subjects of DashboardService
ServiceSubjects == <<dashboardData_, loading_, error_, lastRefreshTime_>>

\* C21: lastRefreshTime$ holds the time of the last successful fetch unless
\* invalidateCache was called since (only a success sets it, only
\* invalidateCache clears it); refreshDashboardIfNeeded fetches iff that time
\* is absent or at least 5 minutes old, and otherwise sends nothing and
\* leaves the four subjects unchanged; after invalidateCache it always
\* fetches.
C21_RefreshFetchesIffCacheInvalid ==
  [][/\ lastEvent'.kind = "FetchSucceeded" =>
          lastRefreshTime_' = [date |-> now]
     /\ InvalidateCache => ~isCacheValid'
     /\ (lastEvent'.kind # "FetchSucceeded" /\ ~InvalidateCache) =>
          lastRefreshTime_' = lastRefreshTime_
     /\ RefreshDashboardIfNeeded =>
          IF /\ lastRefreshTime_ # Null
             /\ now - lastRefreshTime_.date < 5 * 60 * 1000
          THEN /\ UNCHANGED ServiceSubjects
               /\ UNCHANGED fetches
               /\ lastEvent'.kind = "RefreshSkipped"
          ELSE /\ Len(fetches') = Len(fetches) + 1
               /\ fetches'[Len(fetches')].state = "inflight"
               /\ loading_'
               /\ lastEvent'.kind = "RefreshFetched"]_vars

C21_Witness ==
  /\ lastEvent.kind = "RefreshFetched"
  /\ lastRefreshTime_ # Null
  /\ now - lastRefreshTime_.date = 5 * 60 * 1000
  /\ dashboardData_ # Null
  /\ Len(fetches) = 1

\* C22: while a dashboard fetch is in flight refreshDashboardIfNeeded starts
\* no second one: at most one fetchDashboard pipeline is unfinished in any
\* state.
C22_NoDuplicateFetch ==
  Len(fetches) <= 1

\* C28: loading$ is true whenever at least one fetchDashboard pipeline has
\* not finished, also when two of them overlap.
C28_LoadingWhileAnyFetchInFlight ==
  fetches # <<>> => loading_

\* C29: a late outcome of an older fetch never overwrites the result of a
\* newer one: once the most recently issued fetch has finished, the end of a
\* fetch issued before it changes neither dashboardData$ nor error$ nor
\* lastRefreshTime$.
C29_OlderFetchNeverOverwrites ==
  [][(/\ fetches # <<>>
      /\ \A k \in 1..Len(fetches) : ~fetches[k].newest
      /\ lastEvent'.kind \in {"FetchSucceeded", "FetchFailed"}) =>
       UNCHANGED <<dashboardData_, error_, lastRefreshTime_>>]_vars

\* C30: among the subjects of DashboardService, a fetch that ends in error
\* sets error$ to an ErrorState and loading$ to false and leaves
\* dashboardData$ and lastRefreshTime$ as they were; a successful fetch sets
\* dashboardData$ and lastRefreshTime$, error$ = null and loading$ = false;
\* clearError changes only error$ and invalidateCache only lastRefreshTime$.
C30_ServiceFrameEffects ==
  [][/\ lastEvent'.kind = "FetchFailed" =>
          /\ error_' # Null
          /\ ~loading_'
          /\ UNCHANGED <<dashboardData_, lastRefreshTime_>>
     /\ lastEvent'.kind = "FetchSucceeded" =>
          /\ dashboardData_' # Null
          /\ lastRefreshTime_' = [date |-> now]
          /\ error_' = Null
          /\ ~loading_'
     /\ ClearError =>
          /\ error_' = Null
          /\ UNCHANGED <<dashboardData_, loading_, lastRefreshTime_, fetches>>
     /\ InvalidateCache =>
          /\ lastRefreshTime_' = Null
          /\ UNCHANGED <<dashboardData_, loading_, error_, fetches>>]_vars

C30_Witness ==
  /\ lastEvent.kind = "FetchFailed"
  /\ dashboardData_ # Null
  /\ lastRefreshTime_ # Null
  /\ error_ # Null
  /\ ~loading_

\* C24: submit() emits a SignUpRequest only when the email is non-empty and
\* well-formed, the password non-empty, confirmPassword non-empty and equal
\* to the password, and isLoading is false, and then it emits exactly the
\* email and the password of the form; otherwise nothing is emitted, and
\* when the form is invalid the three touched flags become true. Nothing but
\* submit() emits, and no emitted password differs from confirmPassword.
C24_SubmitEmitsOnlyValidForm ==
  [][/\ submit =>
          LET fieldsValid ==
                /\ formEmail # <<>>
                /\ EmailPattern(formEmail)
                /\ formPassword # <<>>
                /\ formConfirmPassword # <<>>
                /\ formConfirmPassword = formPassword
          IN  /\ (fieldsValid /\ ~formIsLoading) =>
                   /\ formEmitted' =
                        [email |-> formEmail, password |-> formPassword]
                   /\ UNCHANGED <<emailTouched, passwordTouched,
                                  confirmPasswordTouched>>
              /\ (fieldsValid /\ formIsLoading) =>
                   /\ formEmitted' = Null
                   /\ UNCHANGED <<emailTouched, passwordTouched,
                                  confirmPasswordTouched>>
              /\ ~fieldsValid =>
                   /\ formEmitted' = Null
                   /\ emailTouched'
                   /\ passwordTouched'
                   /\ confirmPasswordTouched'
     /\ formEmitted' # Null =>
          /\ submit
          /\ formEmitted'.password = formConfirmPassword'
          /\ ~formIsLoading']_vars

C24_Witness ==
  /\ formEmitted # Null
  /\ formEmitted.email = <<"a", "@", "a">>
  /\ formEmitted.password = <<"a", "b">>
  /\ formConfirmPassword = <<"a", "b">>
  /\ ~emailTouched

(***************************************************************************)
(* Properties of the submissions of LoginComponent and                     *)
(* RegistrationComponent                                                   *)
(***************************************************************************)
\* the responses that end a sign-in and a sign-up
SignInEndings == {"SignInSuccess", "SignInError", "SignInTimeout"}

SignUpEndings == {"SignUpSuccess", "SignUpError", "SignUpTimeout"}

\* C31: every submission LoginComponent or RegistrationComponent accepted
\* ends with isLoading false unless the component is destroyed; isLoading
\* of a live component falls only by a success response, an error response
\* or the timeout; while isLoading is true the error is null
C31_SubmissionEnds ==
  /\ [](loginIsLoading => loginAlive /\ loginError = Null)
  /\ [](regIsLoading => regAlive /\ regError = Null)
  /\ [][loginIsLoading /\ ~loginIsLoading' /\ loginAlive'
         => lastEvent'.kind \in SignInEndings]_vars
  /\ [][regIsLoading /\ ~regIsLoading' /\ regAlive'
         => lastEvent'.kind \in SignUpEndings]_vars
  /\ (loginIsLoading ~> ~loginIsLoading)
  /\ (regIsLoading ~> ~regIsLoading)

\* the timeout ended a submission of a LoginComponent that is still alive
C31_Witness ==
  /\ lastEvent.kind = "SignInTimeout"
  /\ loginAlive
  /\ ~loginIsLoading
  /\ loginError # Null
  /\ loginRequests = <<>>

(***************************************************************************)
(* Properties of DashboardComponent                                        *)
(***************************************************************************)
\* the step handled the success of a load the component on screen started
ComponentLoadSucceeded ==
  /\ lastEvent'.kind = "FetchSucceeded"
  /\ lastEvent'.subscriber = "loadDashboard"
  /\ lastEvent'.ownerLive

\* C32: retry() starts a load iff retryCount < 3 and then retryCount is one
\* more, otherwise it changes nothing; retryCount is always in 0..3; the
\* retryCount of a component falls to 0 exactly in the steps in which a
\* load it started succeeds; so once three retries were counted since the
\* last success a further retry starts no request
C32_RetryCountBounded ==
  /\ [](retryCount \in 0..maxRetries)
  /\ [][DashboardRetry =>
         IF retryCount < maxRetries
         THEN /\ retryCount' = retryCount + 1
              /\ fetches' =
                   Append([k \in 1..Len(fetches) |->
                             [fetches[k] EXCEPT !.newest = FALSE]],
                          NewFetch("loadDashboard"))
              /\ loading_'
         ELSE UNCHANGED dashVars]_vars
  /\ [][(dashAlive /\ dashAlive' /\ retryCount # 0 /\ retryCount' = 0)
         => ComponentLoadSucceeded]_vars
  /\ [][ComponentLoadSucceeded => retryCount' = 0]_vars
  /\ [][(dashAlive /\ dashAlive' /\ retryCount' > retryCount)
         => DashboardRetry]_vars

\* the load of the third retry failed: the retries are used up
C32_Witness ==
  /\ dashAlive
  /\ retryCount = maxRetries
  /\ lastEvent.kind = "FetchFailed"
  /\ lastEvent.subscriber = "loadDashboard"
  /\ fetches = <<>>
  /\ error_ # Null

\* no fetch has started yet: the router has not processed the first
\* navigation, so no DashboardComponent was ever built
BeforeAnyFetch == routerUrl = <<"/">>

\* C33: loadingState$ is SUCCESS only while nothing is loading and the
\* latest fetch left no error; with loading$ false and error$ non-null it
\* is ERROR; before any fetch has started it is IDLE
C33_LoadingStateReflectsOutcome ==
  /\ loadingState_ \in DashboardLoadingState
  /\ (~loading_ /\ error_ # Null) => loadingState_ = "error"
  /\ loadingState_ = "success" => (~loading_ /\ error_ = Null)
  /\ BeforeAnyFetch => loadingState_ = "idle"

====
